---- MODULE Spec2Model ----
(***************************************************************************)
(* Multi-strategy XML search engine (SAX, DOM, ElementTree strategies),    *)
(* its query model and the call-level life cycle of parse and of the two   *)
(* discovery operations; successive calls on one strategy (SpecRepeat),     *)
(* calls in parallel threads (SpecThreads), the query predicates on their   *)
(* own (SpecMatch) and the conversion of a SearchResult to a document;      *)
(* a result held across later calls (SpecLater), a call run to its end     *)
(* (SpecFair), the Logger singleton used by several threads (SpecLogger,   *)
(* SpecLoggerReset) and the buttons and workers of the main window         *)
(* (SpecUI).                                                               *)
(*                                                                          *)
(* Strings are sequences of one-character strings, so that lower(),        *)
(* strip(), "in", split() and "/".join() are computed, not assumed.        *)
(* Optional values (Python None) are sequences of length at most one.      *)
(***************************************************************************)
EXTENDS Integers, Sequences, FiniteSets, TLC

(* ------------------------------------------------------------------ *)
(* Bounds                                                              *)
(* ------------------------------------------------------------------ *)

\* Largest number of elements in a document.
MaxNodes == 3

\* Longest string given to the query predicates in SpecMatch.
MaxStrLen == 2

\* Largest number of successive calls on one strategy instance in SpecRepeat.
MaxCalls == 2

\* Number of calls running in parallel threads in SpecThreads.
MaxThreads == 2

\* Threads that use the Logger, and the operations each of them performs.
MaxLoggerThreads == 2

MaxLoggerOps == 3

\* Worker threads of one kind that the main window has running at a time.
MaxWorkers == 2

(* ------------------------------------------------------------------ *)
(* Strings and optionals                                               *)
(* ------------------------------------------------------------------ *)

None == << >>

Some(x) == << x >>

\* Python truthiness of an Optional[str]: None and "" are both falsy.
Falsy(o) ==
    o = None \/ o[1] = << >>

UpperToLower ==
    ("A" :> "a") @@ ("B" :> "b") @@ ("C" :> "c") @@ ("J" :> "j") @@ ("K" :> "k") @@
    ("N" :> "n") @@ ("U" :> "u") @@ ("V" :> "v") @@ ("W" :> "w") @@
    ("X" :> "x") @@ ("Y" :> "y")

LowerChar(c) ==
    IF c \in DOMAIN UpperToLower THEN UpperToLower[c] ELSE c

\* str.lower()
Lower(s) ==
    [i \in 1..Len(s) |-> LowerChar(s[i])]

IsSpace(c) ==
    c = " "

RECURSIVE LStrip(_)
LStrip(s) ==
    IF s # << >> /\ IsSpace(Head(s)) THEN LStrip(Tail(s)) ELSE s

RECURSIVE RStrip(_)
RStrip(s) ==
    IF s # << >> /\ IsSpace(s[Len(s)]) THEN RStrip(SubSeq(s, 1, Len(s) - 1)) ELSE s

\* str.strip()
Strip(s) ==
    RStrip(LStrip(s))

\* needle in hay
Contains(needle, hay) ==
    \E i \in 0..(Len(hay) - Len(needle)) :
        SubSeq(hay, i + 1, i + Len(needle)) = needle

\* "/".join(parts)
RECURSIVE Join(_)
Join(parts) ==
    IF parts = << >> THEN << >>
    ELSE IF Len(parts) = 1 THEN parts[1]
    ELSE parts[1] \o << "/" >> \o Join(Tail(parts))

\* "".join(parts)
RECURSIVE Concat(_)
Concat(parts) ==
    IF parts = << >> THEN << >> ELSE Head(parts) \o Concat(Tail(parts))

\* The elements of a finite set of numbers, in increasing order.
RECURSIVE Sorted(_)
Sorted(S) ==
    IF S = {} THEN << >>
    ELSE LET m == CHOOSE x \in S : \A y \in S : x <= y
         IN << m >> \o Sorted(S \ {m})

\* The sequence s reversed.
Reverse(s) ==
    [i \in 1..Len(s) |-> s[Len(s) + 1 - i]]

(* ------------------------------------------------------------------ *)
(* SearchQuery and its three predicates                                *)
(* ------------------------------------------------------------------ *)

\* SearchQuery.matches_element
matches_element(q, element_name) ==
    Lower(q.element_name) = Lower(element_name)

\* dict.get(key): None when the key is missing.
DictGet(attributes, key) ==
    IF key \in DOMAIN attributes THEN Some(attributes[key]) ELSE None

\* matches_attribute as it would be with "and" for "or" in its first test.
matches_attribute_and(q, attributes) ==
    IF Falsy(q.attribute_name) /\ Falsy(q.attribute_value)
    THEN TRUE
    ELSE DictGet(attributes, IF q.attribute_name = None THEN << >>
                             ELSE q.attribute_name[1]) = q.attribute_value

\* SearchQuery.matches_attribute
matches_attribute(q, attributes) ==
    IF Falsy(q.attribute_name) \/ Falsy(q.attribute_value)
    THEN TRUE
    ELSE DictGet(attributes, q.attribute_name[1]) = q.attribute_value

\* matches_text as it would be without the two lower() calls.
matches_text_case_sensitive(q, text) ==
    IF Falsy(q.text_contains)
    THEN TRUE
    ELSE Contains(q.text_contains[1], text)

\* SearchQuery.matches_text
matches_text(q, text) ==
    IF Falsy(q.text_contains)
    THEN TRUE
    ELSE Contains(Lower(q.text_contains[1]), Lower(text))

(* ------------------------------------------------------------------ *)
(* Documents                                                           *)
(*                                                                     *)
(* A document is the sequence of its elements in document order.       *)
(* Element i has a parent (0 for the root), an optional namespace      *)
(* prefix (declared on the element itself, xmlns:n="u"), a local name, *)
(* its ordinary attributes, the character data before its first child  *)
(* (text) and the character data that follows its end tag inside its   *)
(* parent (tail).                                                      *)
(* ------------------------------------------------------------------ *)

NodeKinds ==
    { [prefix |-> << >>, local |-> << "a" >>,
       attrs |-> (<< "k" >> :> << "v" >>),
       text |-> << "x", " " >>, tail |-> << >>],
      [prefix |-> << >>, local |-> << "a" >>,
       attrs |-> (<< "K" >> :> << "v" >>),
       text |-> << >>, tail |-> << "y" >>],
      [prefix |-> << "n" >>, local |-> << "A" >>,
       attrs |-> (<< "k" >> :> << "w", "\n" >>),
       text |-> << " ", "X" >>, tail |-> << >>],
      [prefix |-> << >>, local |-> << "b" >>,
       attrs |-> (<< "j" >> :> << "v" >>),
       text |-> << >>, tail |-> << "x" >>] }

\* The ancestors of element i (nearest first), given the parent vector p.
RECURSIVE AncestorsOf(_, _)
AncestorsOf(p, i) ==
    IF p[i] = 0 THEN << >> ELSE << p[i] >> \o AncestorsOf(p, p[i])

SeqToSet(s) ==
    { s[i] : i \in 1..Len(s) }

\* Parent vectors of n elements numbered in document order: the parent of
\* element i is the previous element or one of its ancestors.
Shapes(n) ==
    { p \in [1..n -> 0..(n - 1)] :
        /\ p[1] = 0
        /\ \A i \in 2..n : p[i] \in ({i - 1} \cup SeqToSet(AncestorsOf(p, i - 1))) }

MkNode(kind, parent) ==
    [parent |-> parent, prefix |-> kind.prefix, local |-> kind.local,
     attrs |-> kind.attrs, text |-> kind.text,
     tail |-> IF parent = 0 THEN << >> ELSE kind.tail]

Docs ==
    UNION { { [i \in 1..n |-> MkNode(ks[i], p[i])] :
                ks \in [1..n -> NodeKinds], p \in Shapes(n) } :
            n \in 1..MaxNodes }

\* The child elements of element i, in document order.
Children(d, i) ==
    Sorted({ j \in 1..Len(d) : d[j].parent = i })

\* Tags of the ancestors of element i from the root down to i itself, each
\* named by TagOf.
AncestorChain(d, i) ==
    Reverse(<< i >> \o AncestorsOf([j \in 1..Len(d) |-> d[j].parent], i))

(* ------------------------------------------------------------------ *)
(* What each underlying parser reports for an element                  *)
(* ------------------------------------------------------------------ *)

NsUri == << "u" >>

\* The qualified name as written in the markup.
QName(nd) ==
    IF nd.prefix = << >> THEN nd.local ELSE nd.prefix \o << ":" >> \o nd.local

\* The attributes as written in the markup: the ordinary attributes and the
\* namespace declaration, if any.
MarkupAttrs(nd) ==
    IF nd.prefix = << >> THEN nd.attrs
    ELSE ((<< "x", "m", "l", "n", "s", ":" >> \o nd.prefix) :> NsUri) @@ nd.attrs

\* xml.etree.ElementTree: Element.tag is {uri}local for a namespaced element.
ETTag(nd) ==
    IF nd.prefix = << >> THEN nd.local
    ELSE << "{" >> \o NsUri \o << "}" >> \o nd.local

\* xml.etree.ElementTree: Element.attrib holds no namespace declarations.
ETAttrib(nd) ==
    nd.attrs

\* xml.etree.ElementTree: Element.text is None when no character data precedes
\* the first child.
ETText(nd) ==
    IF nd.text = << >> THEN None ELSE Some(nd.text)

\* xml.dom.minidom: data of the TEXT_NODE children of element i, in order.
DOMTextNodes(d, i) ==
    LET kids == Children(d, i)
        all == << d[i].text >> \o [k \in 1..Len(kids) |-> d[kids[k]].tail]
    IN SelectSeq(all, LAMBDA t : t # << >>)

\* The SAX events of the subtree of element i.
RECURSIVE EventsOf(_, _)
EventsOf(d, i) ==
    LET kids == Children(d, i)
        chars(t) == IF t = << >> THEN << >>
                    ELSE << [type |-> "characters", node |-> i, content |-> t] >>
        sub[k \in 0..Len(kids)] ==
            IF k = 0 THEN << >>
            ELSE sub[k - 1] \o EventsOf(d, kids[k]) \o chars(d[kids[k]].tail)
    IN << [type |-> "startElement", node |-> i, content |-> << >>] >>
       \o chars(d[i].text)
       \o sub[Len(kids)]
       \o << [type |-> "endElement", node |-> i, content |-> << >>] >>

\* The SAX events of a document, in document order.
Events(d) ==
    EventsOf(d, 1)

(* ------------------------------------------------------------------ *)
(* SAX strategy: the two content handlers                              *)
(* ------------------------------------------------------------------ *)

\* ParsedElement(tag, attributes, text, path).  node is not a field of the
\* code: it records which document element the object was created for.
ParsedElement(tag, attributes, text, path_, node) ==
    [tag |-> tag, attributes |-> attributes, text |-> text, path |-> path_,
     node |-> node]

\* SAXSearchHandler.__init__
SAXSearchHandlerInit ==
    [results |-> << >>, current_path |-> << >>, current_text |-> << >>,
     current_element |-> None]

\* SAXSearchHandler.startElement
SAXStartElement(h, q, name, attrs, node) ==
    LET h1 == [h EXCEPT !.current_path = Append(@, name),
                        !.current_text = << >>]
    IN IF matches_element(q, name) /\ matches_attribute(q, attrs)
       THEN [h1 EXCEPT !.current_element =
                Some(ParsedElement(name, attrs, << >>,
                                   Join(h1.current_path), node))]
       ELSE h1

\* SAXSearchHandler.endElement as it would be without self.current_path.pop().
SAXEndElementNoPop(h, q, name) ==
    LET tracked == h.current_element # None /\ h.current_element[1].tag = name
        e == [h.current_element[1] EXCEPT !.text = Strip(h.current_text)]
        h1 == IF tracked
              THEN [h EXCEPT !.results = IF matches_text(q, e.text)
                                         THEN Append(@, e) ELSE @,
                             !.current_element = None]
              ELSE h
    IN [h1 EXCEPT !.current_text = << >>]

\* SAXSearchHandler.endElement
SAXEndElement(h, q, name) ==
    LET tracked == h.current_element # None /\ h.current_element[1].tag = name
        e == [h.current_element[1] EXCEPT !.text = Strip(h.current_text)]
        h1 == IF tracked
              THEN [h EXCEPT !.results = IF matches_text(q, e.text)
                                         THEN Append(@, e) ELSE @,
                             !.current_element = None]
              ELSE h
    IN [h1 EXCEPT !.current_path = SubSeq(@, 1, Len(@) - 1),
                  !.current_text = << >>]

\* SAXSearchHandler.characters
SAXCharacters(h, content) ==
    [h EXCEPT !.current_text = @ \o content]

\* The handler after one event of document d.
SAXDispatch(h, q, d, ev) ==
    IF ev.type = "startElement"
    THEN SAXStartElement(h, q, QName(d[ev.node]), MarkupAttrs(d[ev.node]), ev.node)
    ELSE IF ev.type = "endElement"
    THEN SAXEndElement(h, q, QName(d[ev.node]))
    ELSE SAXCharacters(h, ev.content)

\* SAXAttributeCollector.__init__
SAXAttributeCollectorInit(element_name, attribute_name) ==
    [element_name |-> element_name, attribute_name |-> attribute_name,
     attributes |-> {}, values |-> {}]

\* SAXAttributeCollector.startElement
SAXCollectStartElement(c, name, attrs) ==
    IF Lower(name) = Lower(c.element_name)
    THEN IF ~Falsy(c.attribute_name)
         THEN IF c.attribute_name[1] \in DOMAIN attrs
              THEN [c EXCEPT !.values = @ \cup {attrs[c.attribute_name[1]]}]
              ELSE c
         ELSE [c EXCEPT !.attributes = @ \cup DOMAIN attrs]
    ELSE c

\* The collector after one event of document d: only startElement is handled.
SAXCollectDispatch(c, d, ev) ==
    IF ev.type = "startElement"
    THEN SAXCollectStartElement(c, QName(d[ev.node]), MarkupAttrs(d[ev.node]))
    ELSE c

(* ------------------------------------------------------------------ *)
(* DOM strategy: one invocation of each recursive walker on element i  *)
(* ------------------------------------------------------------------ *)

\* DOMParserStrategy._get_element_text
DOMGetElementText(d, i) ==
    Strip(Concat(DOMTextNodes(d, i)))

\* _search_elements as it would be without its query.matches_element test.
DOMSearchNodeAnyName(d, i, q, path_) ==
    LET nodeName == QName(d[i])
        current_path == Append(path_, nodeName)
        attributes_ == MarkupAttrs(d[i])
        text == DOMGetElementText(d, i)
    IN IF /\ matches_attribute(q, attributes_)
          /\ matches_text(q, text)
       THEN << ParsedElement(nodeName, attributes_, text, Join(current_path), i) >>
       ELSE << >>

\* DOMParserStrategy._search_elements, without its recursive calls: the
\* elements appended to results for element i reached with path path_.
DOMSearchNode(d, i, q, path_) ==
    LET nodeName == QName(d[i])
        current_path == Append(path_, nodeName)
        attributes_ == MarkupAttrs(d[i])
        text == DOMGetElementText(d, i)
    IN IF /\ matches_element(q, nodeName)
          /\ matches_attribute(q, attributes_)
          /\ matches_text(q, text)
       THEN << ParsedElement(nodeName, attributes_, text, Join(current_path), i) >>
       ELSE << >>

\* _collect_attributes as it would be without the two lower() calls.
DOMCollectNodeCaseSensitive(d, i, element_name) ==
    IF QName(d[i]) = element_name
    THEN DOMAIN MarkupAttrs(d[i])
    ELSE {}

\* DOMParserStrategy._collect_attributes, without its recursive calls.
DOMCollectNode(d, i, element_name) ==
    IF Lower(QName(d[i])) = Lower(element_name)
    THEN DOMAIN MarkupAttrs(d[i])
    ELSE {}

\* _collect_attribute_values as it would be without the two lower() calls.
DOMCollectValuesNodeCaseSensitive(d, i, element_name, attribute_name) ==
    IF /\ QName(d[i]) = element_name
       /\ attribute_name \in DOMAIN MarkupAttrs(d[i])
    THEN {MarkupAttrs(d[i])[attribute_name]}
    ELSE {}

\* DOMParserStrategy._collect_attribute_values, without its recursive calls.
DOMCollectValuesNode(d, i, element_name, attribute_name) ==
    IF /\ Lower(QName(d[i])) = Lower(element_name)
       /\ attribute_name \in DOMAIN MarkupAttrs(d[i])
    THEN {MarkupAttrs(d[i])[attribute_name]}
    ELSE {}

(* ------------------------------------------------------------------ *)
(* ElementTree strategy                                                *)
(* ------------------------------------------------------------------ *)

\* Index of the first "}" of tag, 0 when there is none.
FirstBrace(tag) ==
    IF \E i \in 1..Len(tag) : tag[i] = "}"
    THEN CHOOSE i \in 1..Len(tag) :
            tag[i] = "}" /\ \A j \in 1..(i - 1) : tag[j] # "}"
    ELSE 0

\* ElementTreeParserStrategy._remove_namespace
RemoveNamespace(tag) ==
    IF FirstBrace(tag) # 0
    THEN SubSeq(tag, FirstBrace(tag) + 1, Len(tag))
    ELSE tag

\* ElementTreeParserStrategy._search_elements, without its recursive calls.
ETSearchNode(d, i, q, path_) ==
    LET tag == RemoveNamespace(ETTag(d[i]))
        current_path == Append(path_, tag)
        attributes_ == ETAttrib(d[i])
        text == IF ETText(d[i]) = None THEN << >> ELSE ETText(d[i])[1]
    IN IF /\ matches_element(q, tag)
          /\ matches_attribute(q, attributes_)
          /\ matches_text(q, text)
       THEN << ParsedElement(tag, attributes_, Strip(text), Join(current_path), i) >>
       ELSE << >>

\* ElementTreeParserStrategy._collect_attributes, without its recursive calls.
ETCollectNode(d, i, element_name) ==
    IF Lower(RemoveNamespace(ETTag(d[i]))) = Lower(element_name)
    THEN DOMAIN ETAttrib(d[i])
    ELSE {}

\* _collect_attribute_values as it would be if the attribute name were compared
\* ignoring case.
ETCollectValuesNodeAnyCase(d, i, element_name, attribute_name) ==
    IF Lower(RemoveNamespace(ETTag(d[i]))) = Lower(element_name)
    THEN { ETAttrib(d[i])[a] :
           a \in { b \in DOMAIN ETAttrib(d[i]) : Lower(b) = Lower(attribute_name) } }
    ELSE {}

\* ElementTreeParserStrategy._collect_attribute_values, without its recursive
\* calls.
ETCollectValuesNode(d, i, element_name, attribute_name) ==
    IF /\ Lower(RemoveNamespace(ETTag(d[i]))) = Lower(element_name)
       /\ attribute_name \in DOMAIN ETAttrib(d[i])
    THEN {ETAttrib(d[i])[attribute_name]}
    ELSE {}

\* The tag a strategy's walker pushes on the path for element nd.
TagOf(s, nd) ==
    IF s = "ET" THEN RemoveNamespace(ETTag(nd)) ELSE QName(nd)

(* ------------------------------------------------------------------ *)
(* The engine: one call of parse, get_available_attributes or          *)
(* get_attribute_values on one strategy                                *)
(* ------------------------------------------------------------------ *)

VARIABLES
    file,        \* what the file system holds at file_path
    pc,          \* Idle, Validating, Parsing, Searching, Done, Failed
    strategy,    \* "SAX", "DOM" or "ET"
    op,          \* "parse", "get_available_attributes", "get_attribute_values"
    query,       \* the SearchQuery (parse) or element_name, attribute_name
    attempted,   \* the underlying parser has been handed the file
    searched,    \* the query has been evaluated against a document element
    pos,         \* SAX: events delivered so far
    handler,     \* SAX: the SAXSearchHandler
    collector,   \* SAX: the SAXAttributeCollector
    stack,       \* DOM, ET: pending invocations of the recursive walker
    results,     \* DOM, ET: the results list
    attributes,  \* DOM, ET: the attributes set
    values,      \* DOM, ET: the values set
    returned,    \* what the call returned to its caller, None until it returns
    failure,     \* the exception the call raised, None if none
    log,         \* the lines appended to the log file
    match,       \* a query predicate applied on its own: its inputs and result
    visited,     \* DOM, ET: the elements the walker was invoked on, in order
    xml,         \* the document convert_to_xml made of the result, None before
    calls,       \* the calls made so far on the strategy instance
    previous,    \* what the call before this one was and returned, None if none
    threads,     \* the locals of each of several calls running in parallel
    lists,       \* the result containers constructed so far; the last is in use
    logger,      \* the Logger class, its instances, the log files, the callers
    ui           \* the main window: its fields, its buttons, its workers

vars ==
    << file, pc, strategy, op, query, attempted, searched, pos, handler,
       collector, stack, results, attributes, values, returned, failure, log,
       match, visited, xml, calls, previous, threads, lists, logger, ui >>

Strategies == {"SAX", "DOM", "ET"}

Ops == {"parse", "get_available_attributes", "get_attribute_values"}

\* file_path.name
FileName == "doc.xml"

ElementNames ==
    { << "A" >>, << "n", ":", "a" >> }

AttributeFilters ==
    { << None, None >>,
      << Some(<< "k" >>), Some(<< "v" >>) >>,
      << Some(<< "k" >>), Some(<< >>) >> }

TextFilters ==
    { None, Some(<< "X" >>), Some(<< " ", "x" >>) }

AttributeNames ==
    { << "k" >>, << "K" >> }

\* The arguments a call of operation o can be given.
Queries(o) ==
    IF o = "parse"
    THEN { [element_name |-> e, attribute_name |-> af[1],
            attribute_value |-> af[2], text_contains |-> t] :
           e \in ElementNames, af \in AttributeFilters, t \in TextFilters }
    ELSE IF o = "get_available_attributes"
    THEN { [element_name |-> e, attribute_name |-> None,
            attribute_value |-> None, text_contains |-> None] :
           e \in ElementNames }
    ELSE { [element_name |-> e, attribute_name |-> Some(a),
            attribute_value |-> None, text_contains |-> None] :
           e \in ElementNames, a \in AttributeNames }

NoQuery ==
    [element_name |-> << >>, attribute_name |-> None,
     attribute_value |-> None, text_contains |-> None]

NoCollector ==
    SAXAttributeCollectorInit(<< >>, None)

\* What file_path can name: nothing, a directory, or a regular file holding
\* document doc, which is well-formed or broken somewhere before its end.
Missing ==
    [kind |-> "missing", doc |-> << >>, wellformed |-> FALSE]

Directory ==
    [kind |-> "dir", doc |-> << >>, wellformed |-> FALSE]

RegularFile(d, wf) ==
    [kind |-> "file", doc |-> d, wellformed |-> wf]

\* The exceptions the code raises.
FileNotFound ==
    [type |-> "FileNotFoundError", msg |-> "XML file not found"]

NotAFile ==
    [type |-> "ValueError", msg |-> "Path is not a file"]

ParseFailed ==
    [type |-> "ValueError", msg |-> "Failed to parse XML"]

\* The exception raised for each cause of failure.
Raised(cause) ==
    IF cause = "missing" THEN FileNotFound
    ELSE IF cause = "not_a_file" THEN NotAFile
    ELSE ParseFailed

\* get_parser_name
ParserName(s) ==
    IF s = "SAX" THEN "SAX Parser"
    ELSE IF s = "DOM" THEN "DOM Parser"
    ELSE "ElementTree Parser (LINQ to XML)"

\* SearchResult(query, elements, parser_type); execution_time_ms is not modelled.
SearchResult(q, elements, parser_type) ==
    [query |-> q, elements |-> elements, parser_type |-> parser_type]

\* The message parse hands to Logger.log_filtering.
LogLine(s, file_name, element_name, count) ==
    [level |-> "FILTERING", parser |-> ParserName(s), file |-> file_name,
     element |-> element_name, found |-> count]

\* No predicate is being applied on its own.
NoMatch ==
    [fn |-> "", query |-> NoQuery, arg |-> << >>, result |-> None]

\* No Logger class loaded and no main window constructed: the parts of the
\* state that a strategy call on its own does not involve.
NoLogger == << >>

NoWindow == << >>

Init ==
    /\ file \in {Missing, Directory}
                 \cup { RegularFile(d, wf) : d \in Docs, wf \in BOOLEAN }
    /\ pc = "Idle"
    /\ strategy = ""
    /\ op = ""
    /\ query = NoQuery
    /\ attempted = FALSE
    /\ searched = FALSE
    /\ pos = 0
    /\ handler = SAXSearchHandlerInit
    /\ collector = NoCollector
    /\ stack = << >>
    /\ results = << >>
    /\ attributes = {}
    /\ values = {}
    /\ returned = None
    /\ failure = None
    /\ log = << >>
    /\ match = NoMatch
    /\ visited = << >>
    /\ xml = None
    /\ calls = 0
    /\ previous = None
    /\ lists = 0
    /\ logger = NoLogger
    /\ ui = NoWindow
    /\ threads = << >>

\* An operation as it would be without its self.validate_file(file_path) line.
CallSkipsValidation(s, o, q) ==
    /\ pc = "Idle"
    /\ pc' = "Parsing"
    /\ strategy' = s
    /\ op' = o
    /\ query' = q
    /\ calls' = calls + 1
    /\ UNCHANGED << ui, logger, lists, match, threads, previous, xml, visited, file, attempted, searched, pos, handler, collector, stack,
                    results, attributes, values, returned, failure, log >>

\* The caller invokes operation o of strategy s on file_path with arguments q.
Call(s, o, q) ==
    /\ pc = "Idle"
    /\ pc' = "Validating"
    /\ strategy' = s
    /\ op' = o
    /\ query' = q
    /\ calls' = calls + 1
    /\ UNCHANGED << ui, logger, lists, match, threads, previous, xml, visited, file, attempted, searched, pos, handler, collector, stack,
                    results, attributes, values, returned, failure, log >>

\* validate_file as it would be with the is_file() check left out.
ValidateFileExistsOnly ==
    /\ pc = "Validating"
    /\ IF file.kind = "missing"
       THEN /\ pc' = "Failed"
            /\ failure' = Some(Raised("missing"))
       ELSE /\ pc' = "Parsing"
            /\ UNCHANGED failure
    /\ UNCHANGED << ui, logger, lists, match, threads, previous, calls, xml, visited, file, strategy, op, query, attempted, searched, pos,
                    handler, collector, stack, results, attributes, values,
                    returned, log >>

\* IXMLParser.validate_file, the first statement of every operation.
ValidateFile ==
    /\ pc = "Validating"
    /\ IF file.kind = "missing"
       THEN /\ pc' = "Failed"
            /\ failure' = Some(Raised("missing"))
       ELSE IF file.kind # "file"
       THEN /\ pc' = "Failed"
            /\ failure' = Some(Raised("not_a_file"))
       ELSE /\ pc' = "Parsing"
            /\ UNCHANGED failure
    /\ UNCHANGED << ui, logger, lists, match, threads, previous, calls, xml, visited, file, strategy, op, query, attempted, searched, pos,
                    handler, collector, stack, results, attributes, values,
                    returned, log >>

\* The value the operation returns when its parse and search have completed,
\* given the elements, names and values it collected.
ReturnValue(o, s, q, elements, names, vals) ==
    IF o = "parse" THEN SearchResult(q, elements, ParserName(s))
    ELSE IF o = "get_available_attributes" THEN names
    ELSE vals

\* The log as it would be if the discovery operations logged a filtering line
\* too.
LogAfterAnyOperation(lg, o, s, file_name, q, elements) ==
    Append(lg, LogLine(s, file_name, q.element_name, Len(elements)))

\* The log after the operation has completed: parse logs one filtering line,
\* the discovery operations log nothing.
LogAfter(lg, o, s, file_name, q, elements) ==
    IF o = "parse"
    THEN Append(lg, LogLine(s, file_name, q.element_name, Len(elements)))
    ELSE lg

(* ---------------- SAX ---------------- *)

\* The start of the operation as it would be if the handler were made once
\* and kept on the strategy instead of being constructed in every call.
SAXBeginKeepsHandler ==
    /\ pc = "Parsing"
    /\ strategy = "SAX"
    /\ ~attempted
    /\ attempted' = TRUE
    /\ pos' = 0
    /\ IF op = "parse"
       THEN UNCHANGED << handler, collector >>
       ELSE /\ collector' = SAXAttributeCollectorInit(query.element_name,
                                                      query.attribute_name)
            /\ UNCHANGED handler
    /\ UNCHANGED << ui, logger, lists, match, threads, previous, calls, xml, visited, file, pc, strategy,
                    op, query, searched, stack, results, attributes, values,
                    returned, failure, log >>

\* make_parser(), the handler's construction, and the start of parser.parse.
SAXBegin ==
    /\ pc = "Parsing"
    /\ strategy = "SAX"
    /\ ~attempted
    /\ attempted' = TRUE
    /\ pos' = 0
    /\ lists' = lists + 1
    /\ IF op = "parse"
       THEN /\ handler' = SAXSearchHandlerInit
            /\ UNCHANGED collector
       ELSE /\ collector' = SAXAttributeCollectorInit(query.element_name,
                                                      query.attribute_name)
            /\ UNCHANGED handler
    /\ UNCHANGED << ui, logger, match, threads, previous, calls, xml, visited, file, pc, strategy, op, query, searched, stack, results,
                    attributes, values, returned, failure, log >>

\* parser.parse delivers the next event of the document to the handler.
SAXEvent ==
    /\ pc = "Parsing"
    /\ strategy = "SAX"
    /\ attempted
    /\ pos < Len(Events(file.doc))
    /\ LET d == file.doc
           ev == Events(d)[pos + 1]
       IN /\ pos' = pos + 1
          /\ searched' = (searched \/ ev.type = "startElement")
          /\ IF op = "parse"
             THEN /\ handler' = SAXDispatch(handler, query, d, ev)
                  /\ UNCHANGED collector
             ELSE /\ collector' = SAXCollectDispatch(collector, d, ev)
                  /\ UNCHANGED handler
    /\ UNCHANGED << ui, logger, lists, match, threads, previous, calls, xml, visited, file, pc, strategy, op, query, attempted, stack, results,
                    attributes, values, returned, failure, log >>

\* The parse error as it would be if the except clause swallowed it: the
\* operation goes on with what the handler holds.
SAXParseErrorSwallowed ==
    /\ pc = "Parsing"
    /\ strategy = "SAX"
    /\ attempted
    /\ ~file.wellformed
    /\ pc' = "Done"
    /\ returned' = Some(ReturnValue(op, strategy, query, handler.results,
                                    collector.attributes, collector.values))
    /\ log' = LogAfter(log, op, strategy, FileName, query, handler.results)
    /\ UNCHANGED << ui, logger, lists, match, threads, previous, calls, xml, visited, file, strategy, op, query, attempted, searched, pos,
                    handler, collector, stack, results, attributes, values,
                    failure >>

\* parser.parse raises at the place where the document is broken; the
\* operation re-raises it as ValueError.
SAXParseError ==
    /\ pc = "Parsing"
    /\ strategy = "SAX"
    /\ attempted
    /\ ~file.wellformed
    /\ pc' = "Failed"
    /\ failure' = Some(Raised("malformed"))
    /\ UNCHANGED << ui, logger, lists, match, threads, previous, calls, xml, visited, file, strategy, op, query, attempted, searched, pos,
                    handler, collector, stack, results, attributes, values,
                    returned, log >>

\* The end of the input as it would be if parser.parse read the file again
\* from its start instead of returning.
SAXReturnStartsOver ==
    /\ pc = "Parsing"
    /\ strategy = "SAX"
    /\ attempted
    /\ file.wellformed
    /\ pos = Len(Events(file.doc))
    /\ pos' = 0
    /\ handler' = SAXSearchHandlerInit
    /\ collector' = IF op = "parse" THEN collector
                    ELSE SAXAttributeCollectorInit(query.element_name,
                                                   query.attribute_name)
    /\ UNCHANGED << ui, logger, lists, match, threads, previous, calls, xml, visited,
                    file, pc, strategy, op, query, attempted, searched, stack,
                    results, attributes, values, returned, failure, log >>

\* parser.parse has returned: the operation builds its result, logs and returns.
SAXReturn ==
    /\ pc = "Parsing"
    /\ strategy = "SAX"
    /\ attempted
    /\ file.wellformed
    /\ pos = Len(Events(file.doc))
    /\ pc' = "Done"
    /\ returned' = Some(ReturnValue(op, strategy, query, handler.results,
                                    collector.attributes, collector.values))
    /\ log' = LogAfter(log, op, strategy, FileName, query, handler.results)
    /\ UNCHANGED << ui, logger, lists, match, threads, previous, calls, xml, visited, file, strategy, op, query, attempted, searched, pos,
                    handler, collector, stack, results, attributes, values,
                    failure >>

(* ---------------- DOM ---------------- *)

\* The invocations on the children as they would be if the walker went
\* through the children from the last to the first.
ChildFramesReversed(d, i, current_path) ==
    LET kids == Reverse(Children(d, i))
    IN [k \in 1..Len(kids) |-> [node |-> kids[k], path |-> current_path]]

\* The invocations of the walker on the children of element i, in order.
ChildFrames(d, i, current_path) ==
    LET kids == Children(d, i)
    IN [k \in 1..Len(kids) |-> [node |-> kids[k], path |-> current_path]]

\* minidom.parse: the whole document becomes a tree, or the parse fails.
DOMParse ==
    /\ pc = "Parsing"
    /\ strategy = "DOM"
    /\ attempted' = TRUE
    /\ IF file.wellformed
       THEN /\ pc' = "Searching"
            /\ stack' = << [node |-> 1, path |-> << >>] >>
            /\ results' = << >>
            /\ attributes' = {}
            /\ values' = {}
            /\ visited' = << >>
            /\ lists' = lists + 1
            /\ UNCHANGED failure
       ELSE /\ pc' = "Failed"
            /\ failure' = Some(Raised("malformed"))
            /\ UNCHANGED << stack, results, attributes, values, visited, lists >>
    /\ UNCHANGED << ui, logger, match, threads, previous, calls, xml, file, strategy, op, query, searched, pos, handler,
                    collector, returned, log >>

\* One invocation of _search_elements, _collect_attributes or
\* _collect_attribute_values; its recursive calls on the children are pending.
DOMVisit ==
    /\ pc = "Searching"
    /\ strategy = "DOM"
    /\ stack # << >>
    /\ LET d == file.doc
           f == Head(stack)
           current_path == Append(f.path, QName(d[f.node]))
       IN /\ stack' = ChildFrames(d, f.node, current_path) \o Tail(stack)
          /\ results' = IF op = "parse"
                        THEN results \o DOMSearchNode(d, f.node, query, f.path)
                        ELSE results
          /\ attributes' = IF op = "get_available_attributes"
                           THEN attributes \cup DOMCollectNode(d, f.node, query.element_name)
                           ELSE attributes
          /\ values' = IF op = "get_attribute_values"
                       THEN values \cup DOMCollectValuesNode(d, f.node, query.element_name,
                                                             query.attribute_name[1])
                       ELSE values
    /\ searched' = TRUE
    /\ visited' = Append(visited, Head(stack).node)
    /\ UNCHANGED << ui, logger, lists, match, threads, previous, calls, xml, file, pc, strategy, op, query, attempted, pos, handler,
                    collector, returned, failure, log >>

\* The walk is over: the operation builds its result, logs and returns.
DOMReturn ==
    /\ pc = "Searching"
    /\ strategy = "DOM"
    /\ stack = << >>
    /\ pc' = "Done"
    /\ returned' = Some(ReturnValue(op, strategy, query, results, attributes, values))
    /\ log' = LogAfter(log, op, strategy, FileName, query, results)
    /\ UNCHANGED << ui, logger, lists, match, threads, previous, calls, xml, visited, file, strategy, op, query, attempted, searched, pos,
                    handler, collector, stack, results, attributes, values,
                    failure >>

(* ---------------- ElementTree ---------------- *)

\* ET.parse and getroot: the whole document becomes a tree, or the parse fails.
ETParse ==
    /\ pc = "Parsing"
    /\ strategy = "ET"
    /\ attempted' = TRUE
    /\ IF file.wellformed
       THEN /\ pc' = "Searching"
            /\ stack' = << [node |-> 1, path |-> << >>] >>
            /\ results' = << >>
            /\ attributes' = {}
            /\ values' = {}
            /\ visited' = << >>
            /\ lists' = lists + 1
            /\ UNCHANGED failure
       ELSE /\ pc' = "Failed"
            /\ failure' = Some(Raised("malformed"))
            /\ UNCHANGED << stack, results, attributes, values, visited, lists >>
    /\ UNCHANGED << ui, logger, match, threads, previous, calls, xml, file, strategy, op, query, searched, pos, handler,
                    collector, returned, log >>

\* One invocation of _search_elements, _collect_attributes or
\* _collect_attribute_values; its recursive calls on the children are pending.
ETVisit ==
    /\ pc = "Searching"
    /\ strategy = "ET"
    /\ stack # << >>
    /\ LET d == file.doc
           f == Head(stack)
           current_path == Append(f.path, RemoveNamespace(ETTag(d[f.node])))
       IN /\ stack' = ChildFrames(d, f.node, current_path) \o Tail(stack)
          /\ results' = IF op = "parse"
                        THEN results \o ETSearchNode(d, f.node, query, f.path)
                        ELSE results
          /\ attributes' = IF op = "get_available_attributes"
                           THEN attributes \cup ETCollectNode(d, f.node, query.element_name)
                           ELSE attributes
          /\ values' = IF op = "get_attribute_values"
                       THEN values \cup ETCollectValuesNode(d, f.node, query.element_name,
                                                            query.attribute_name[1])
                       ELSE values
    /\ searched' = TRUE
    /\ visited' = Append(visited, Head(stack).node)
    /\ UNCHANGED << ui, logger, lists, match, threads, previous, calls, xml, file, pc, strategy, op, query, attempted, pos, handler,
                    collector, returned, failure, log >>

\* The walk is over: the operation builds its result, logs and returns.
ETReturn ==
    /\ pc = "Searching"
    /\ strategy = "ET"
    /\ stack = << >>
    /\ pc' = "Done"
    /\ returned' = Some(ReturnValue(op, strategy, query, results, attributes, values))
    /\ log' = LogAfter(log, op, strategy, FileName, query, results)
    /\ UNCHANGED << ui, logger, lists, match, threads, previous, calls, xml, visited, file, strategy, op, query, attempted, searched, pos,
                    handler, collector, stack, results, attributes, values,
                    failure >>

(* ---------------- SearchResultXMLConverter ---------------- *)

Digits ==
    << "0", "1", "2", "3", "4", "5", "6", "7", "8", "9" >>

\* str(n) for a natural number n
RECURSIVE IntToStr(_)
IntToStr(n) ==
    IF n < 10 THEN << Digits[n + 1] >>
    ELSE IntToStr(n \div 10) \o << Digits[(n % 10) + 1] >>

\* An attribute value of the document _prettify_xml returns, as a reader of
\* that document gets it: toprettyxml writes line breaks and tabs inside
\* attribute values as they are, and an XML reader turns each into a space.
PrettifiedAttributeValue(v) ==
    [i \in 1..Len(v) |-> IF v[i] \in {"\n", "\t", "\r"} THEN " " ELSE v[i]]

\* Character data of the document _prettify_xml returns, as a reader gets it:
\* a carriage return is written as it is and read back as a line feed.
PrettifiedText(t) ==
    [i \in 1..Len(t) |-> IF t[i] = "\r" THEN "\n" ELSE t[i]]

\* SearchResultXMLConverter._add_element: the <element> entry made of a
\* ParsedElement.  path, attributes and text are written only when truthy;
\* the parsers never fill children, so childrenCount is never written.
AddElement(parsed_elem) ==
    [tag |-> PrettifiedText(parsed_elem.tag),
     path |-> IF parsed_elem.path # << >>
              THEN Some(PrettifiedText(parsed_elem.path)) ELSE None,
     attributes |-> IF DOMAIN parsed_elem.attributes # {}
                    THEN Some([a \in DOMAIN parsed_elem.attributes |->
                                  PrettifiedAttributeValue(parsed_elem.attributes[a])])
                    ELSE None,
     text |-> IF parsed_elem.text # << >> /\ Strip(parsed_elem.text) # << >>
              THEN Some(PrettifiedText(Strip(parsed_elem.text))) ELSE None]

\* SearchResultXMLConverter.convert_to_xml: the metadata block and the results
\* block of the document; executionTime is not modelled.
convert_to_xml(search_result) ==
    [metadata |->
        [parserType |-> search_result.parser_type,
         elementName |-> search_result.query.element_name,
         attributeFilter |->
             IF ~Falsy(search_result.query.attribute_name)
             THEN Some([name |-> search_result.query.attribute_name[1],
                        value |-> IF Falsy(search_result.query.attribute_value)
                                  THEN << >>
                                  ELSE search_result.query.attribute_value[1]])
             ELSE None,
         textFilter |->
             IF ~Falsy(search_result.query.text_contains)
             THEN search_result.query.text_contains ELSE None,
         resultsCount |-> IntToStr(Len(search_result.elements))],
     results |->
        [k \in 1..Len(search_result.elements) |->
            AddElement(search_result.elements[k])]]

\* The caller converts the SearchResult a parse call has returned.
Convert ==
    /\ pc = "Done"
    /\ op = "parse"
    /\ xml = None
    /\ xml' = Some([result |-> returned[1], document |-> convert_to_xml(returned[1])])
    /\ UNCHANGED << ui, logger, lists, match, threads, previous, calls, visited, file, pc, strategy, op,
                    query, attempted, searched, pos, handler, collector, stack,
                    results, attributes, values, returned, failure, log >>

Next ==
    \/ \E s \in Strategies, o \in Ops :
          \E q \in Queries(o) : Call(s, o, q)
    \/ ValidateFile
    \/ SAXBegin
    \/ SAXEvent
    \/ SAXParseError
    \/ SAXReturn
    \/ DOMParse
    \/ DOMVisit
    \/ DOMReturn
    \/ ETParse
    \/ ETVisit
    \/ ETReturn
    \/ Convert

Spec ==
    Init /\ [][Next]_vars

(* ------------------------------------------------------------------ *)
(* Successive calls on one strategy instance                           *)
(* ------------------------------------------------------------------ *)

\* The attribute names that occur in the documents.
DocAttributeNames ==
    UNION { DOMAIN MarkupAttrs(k) : k \in NodeKinds }

\* What the caller does after a call has returned: the same call again, or,
\* after a discovery of names, a discovery of the values of some name.
FollowUps ==
    { << op, query >> }
    \cup
    IF op = "get_available_attributes"
    THEN { << "get_attribute_values", [query EXCEPT !.attribute_name = Some(n)] >> :
           n \in DocAttributeNames }
    ELSE {}

\* The caller invokes operation o of the same strategy instance on the same,
\* unmodified file after the previous call has returned.  Whatever the
\* previous call left behind is still there.
CallAgain(o, q) ==
    /\ pc = "Done"
    /\ calls < MaxCalls
    /\ pc' = "Validating"
    /\ op' = o
    /\ query' = q
    /\ calls' = calls + 1
    /\ previous' = Some([op |-> op, query |-> query, returned |-> returned[1]])
    /\ returned' = None
    /\ attempted' = FALSE
    /\ searched' = FALSE
    /\ UNCHANGED << ui, logger, lists, match, threads, xml, visited, file, strategy, pos, handler,
                    collector, stack, results, attributes, values, failure, log >>

NextRepeat ==
    \/ Next
    \/ \E f \in FollowUps : CallAgain(f[1], f[2])

SpecRepeat ==
    Init /\ [][NextRepeat]_vars

(* ------------------------------------------------------------------ *)
(* The query predicates applied on their own                           *)
(* ------------------------------------------------------------------ *)

MatchChars == {"c", "C", " "}

\* The strings over MatchChars of length at most n.
Strings(n) ==
    UNION { [1..k -> MatchChars] : k \in 0..n }

\* "cat" and "Category A"
CatNeedle == << "c", "a", "t" >>

CategoryText == << "C", "a", "t", "e", "g", "o", "r", "y", " ", "A" >>

MatchAttributeNames ==
    { None, Some(<< >>), Some(<< "k" >>), Some(<< "K" >>) }

MatchAttributeValues ==
    { None, Some(<< >>), Some(<< "v" >>), Some(<< "V" >>) }

\* The attribute mappings over the names k, K and the values "", v, V.
MatchAttributeMaps ==
    UNION { [names -> { << >>, << "v" >>, << "V" >> }] :
            names \in SUBSET { << "k" >>, << "K" >> } }

MatchInputs ==
    { [fn |-> "matches_element",
       query |-> [NoQuery EXCEPT !.element_name = e],
       arg |-> a, result |-> None] :
      e \in Strings(MaxStrLen), a \in Strings(MaxStrLen) }
    \cup
    { [fn |-> "matches_attribute",
       query |-> [NoQuery EXCEPT !.attribute_name = n, !.attribute_value = v],
       arg |-> a, result |-> None] :
      n \in MatchAttributeNames, v \in MatchAttributeValues,
      a \in MatchAttributeMaps }
    \cup
    { [fn |-> "matches_text",
       query |-> [NoQuery EXCEPT !.text_contains = t],
       arg |-> a, result |-> None] :
      t \in {None, Some(CatNeedle)} \cup { Some(x) : x \in Strings(MaxStrLen) },
      a \in Strings(MaxStrLen) \cup {CategoryText} }

MatchInit ==
    /\ match \in MatchInputs
    /\ file = Missing
    /\ pc = "Idle"
    /\ strategy = ""
    /\ op = ""
    /\ query = NoQuery
    /\ attempted = FALSE
    /\ searched = FALSE
    /\ pos = 0
    /\ handler = SAXSearchHandlerInit
    /\ collector = NoCollector
    /\ stack = << >>
    /\ results = << >>
    /\ attributes = {}
    /\ values = {}
    /\ returned = None
    /\ failure = None
    /\ log = << >>
    /\ visited = << >>
    /\ xml = None
    /\ calls = 0
    /\ previous = None
    /\ lists = 0
    /\ logger = NoLogger
    /\ ui = NoWindow
    /\ threads = << >>

engineVars ==
    << file, pc, strategy, op, query, attempted, searched, pos, handler,
       collector, stack, results, attributes, values, returned, failure, log,
       visited, xml, calls, previous, threads, lists, logger, ui >>

ApplyMatchesElement ==
    /\ match.fn = "matches_element"
    /\ match.result = None
    /\ match' = [match EXCEPT !.result = Some(matches_element(match.query, match.arg))]
    /\ UNCHANGED engineVars

ApplyMatchesAttribute ==
    /\ match.fn = "matches_attribute"
    /\ match.result = None
    /\ match' = [match EXCEPT !.result = Some(matches_attribute(match.query, match.arg))]
    /\ UNCHANGED engineVars

ApplyMatchesText ==
    /\ match.fn = "matches_text"
    /\ match.result = None
    /\ match' = [match EXCEPT !.result = Some(matches_text(match.query, match.arg))]
    /\ UNCHANGED engineVars

MatchNext ==
    \/ ApplyMatchesElement
    \/ ApplyMatchesAttribute
    \/ ApplyMatchesText

SpecMatch ==
    MatchInit /\ [][MatchNext]_vars

(* ------------------------------------------------------------------ *)
(* Whole runs of the three searches, as functions of document and query *)
(* ------------------------------------------------------------------ *)

\* The SAXSearchHandler after the events k+1.. of evs.
RECURSIVE SAXRun(_, _, _, _, _)
SAXRun(h, q, d, evs, k) ==
    IF k >= Len(evs) THEN h
    ELSE SAXRun(SAXDispatch(h, q, d, evs[k + 1]), q, d, evs, k + 1)

\* DOMParserStrategy._search_elements with its recursive calls: what it appends
\* to results.
RECURSIVE DOMSearchElements(_, _, _, _)
DOMSearchElements(d, i, q, path_) ==
    LET kids == Children(d, i)
        current_path == Append(path_, QName(d[i]))
    IN DOMSearchNode(d, i, q, path_)
       \o Concat([k \in 1..Len(kids) |-> DOMSearchElements(d, kids[k], q, current_path)])

\* ElementTreeParserStrategy._search_elements with its recursive calls.
RECURSIVE ETSearchElements(_, _, _, _)
ETSearchElements(d, i, q, path_) ==
    LET kids == Children(d, i)
        current_path == Append(path_, RemoveNamespace(ETTag(d[i])))
    IN ETSearchNode(d, i, q, path_)
       \o Concat([k \in 1..Len(kids) |-> ETSearchElements(d, kids[k], q, current_path)])

\* The elements parse of strategy s finds in well-formed document d.
ParseElements(s, d, q) ==
    IF s = "SAX" THEN SAXRun(SAXSearchHandlerInit, q, d, Events(d), 0).results
    ELSE IF s = "DOM" THEN DOMSearchElements(d, 1, q, << >>)
    ELSE ETSearchElements(d, 1, q, << >>)

\* The (tag, attributes, text, path) tuples of a list of ParsedElement.
Tuples(elements) ==
    [k \in 1..Len(elements) |->
        [tag |-> elements[k].tag, attributes |-> elements[k].attributes,
         text |-> elements[k].text, path |-> elements[k].path]]

\* The attributes the strategy's parser reports for element nd.
AttrsOf(s, nd) ==
    IF s = "ET" THEN ETAttrib(nd) ELSE MarkupAttrs(nd)

\* The trimmed direct text of element i: its immediate character data, not
\* that of nested elements.
DirectText(d, i) ==
    Strip(Concat(DOMTextNodes(d, i)))

\* The text a strategy hands to matches_text for element i: the stripped
\* character data since the last tag before its end tag (SAX), the stripped
\* direct text (DOM), element.text or "" (ElementTree).
FilterText(s, d, i) ==
    IF s = "SAX"
    THEN LET kids == Children(d, i)
         IN IF kids = << >> THEN Strip(d[i].text)
            ELSE Strip(d[kids[Len(kids)]].tail)
    ELSE IF s = "DOM" THEN DirectText(d, i)
    ELSE IF ETText(d[i]) = None THEN << >> ELSE ETText(d[i])[1]

\* A parse call has returned its SearchResult.
ParseDone ==
    pc = "Done" /\ op = "parse"

\* The document elements the returned ParsedElements were created for.
ReturnedNodes ==
    { returned[1].elements[k].node : k \in 1..Len(returned[1].elements) }

(* ------------------------------------------------------------------ *)
(* Calls running in parallel threads                                   *)
(*                                                                     *)
(* Each thread executes one operation.  Everything an operation works  *)
(* on is a local of the call (parser, handler, dom, results, path),    *)
(* kept here in the thread's record; the files and the log are shared. *)
(* One strategy object per kind is shared by the threads that use it.  *)
(* ------------------------------------------------------------------ *)

ThreadPaths == {"doc.xml", "other.xml"}

\* What the paths of the parallel calls hold: nothing, or one of two
\* well-formed documents.
ThreadFiles ==
    {Missing}
    \cup { RegularFile(d, TRUE) :
           d \in { e \in Docs : /\ Len(e) = 2
                                /\ DOMAIN e[1].attrs = {<< "k" >>}
                                /\ e[1].prefix = << >>
                                /\ e[2].local = << "a" >> } }

\* The arguments of the parallel calls.
ThreadQueries(o) ==
    { q \in Queries(o) :
        /\ q.element_name = << "A" >>
        /\ q.text_contains = None
        /\ q.attribute_value # Some(<< >>)
        /\ q.attribute_name # Some(<< "K" >>) }

\* The locals of a call that is about to execute its first statement.
ThreadLocals(p, f, s, o, q) ==
    [path |-> p, file |-> f, strategy |-> s, op |-> o, query |-> q,
     pc |-> "Validating", attempted |-> FALSE, pos |-> 0,
     handler |-> SAXSearchHandlerInit, collector |-> NoCollector,
     stack |-> << >>, results |-> << >>, attributes |-> {}, values |-> {},
     returned |-> None, failure |-> None]

ThreadCalls ==
    { ThreadLocals(p, f, s, o, q) :
        p \in ThreadPaths, f \in ThreadFiles, s \in Strategies,
        o \in Ops, q \in UNION { ThreadQueries(o2) : o2 \in Ops } }

InitThreads ==
    /\ threads \in { ths \in [1..MaxThreads -> ThreadCalls] :
                        /\ \A t \in 1..MaxThreads :
                              ths[t].query \in ThreadQueries(ths[t].op)
                        /\ \A t, u \in 1..MaxThreads :
                              ths[t].path = ths[u].path => ths[t].file = ths[u].file }
    /\ file = Missing
    /\ pc = "Idle"
    /\ strategy = ""
    /\ op = ""
    /\ query = NoQuery
    /\ attempted = FALSE
    /\ searched = FALSE
    /\ pos = 0
    /\ handler = SAXSearchHandlerInit
    /\ collector = NoCollector
    /\ stack = << >>
    /\ results = << >>
    /\ attributes = {}
    /\ values = {}
    /\ returned = None
    /\ failure = None
    /\ log = << >>
    /\ match = NoMatch
    /\ visited = << >>
    /\ xml = None
    /\ calls = 0
    /\ previous = None
    /\ lists = 0
    /\ logger = NoLogger
    /\ ui = NoWindow

\* Everything but the threads and the log.
singleCallVars ==
    << file, pc, strategy, op, query, attempted, searched, pos, handler,
       collector, stack, results, attributes, values, returned, failure,
       match, visited, xml, calls, previous, lists, logger, ui >>

\* The locals as they would be stored if the handler were a field of the
\* strategy object: the threads that use the same strategy see one handler.
ThreadStoreHandlerOnStrategy(ths, t, c) ==
    [u \in DOMAIN ths |->
        IF u = t THEN c
        ELSE IF ths[u].strategy = c.strategy /\ c.attempted
        THEN [ths[u] EXCEPT !.handler = c.handler]
        ELSE ths[u]]

\* Thread t's locals become c: the locals of the other calls are theirs.
ThreadStore(ths, t, c) ==
    [ths EXCEPT ![t] = c]

\* validate_file in thread t
ThreadValidate(t) ==
    LET c == threads[t]
    IN /\ c.pc = "Validating"
       /\ threads' = ThreadStore(threads, t,
             IF c.file.kind = "missing"
             THEN [c EXCEPT !.pc = "Failed", !.failure = Some(Raised("missing"))]
             ELSE IF c.file.kind # "file"
             THEN [c EXCEPT !.pc = "Failed", !.failure = Some(Raised("not_a_file"))]
             ELSE [c EXCEPT !.pc = "Parsing"])
       /\ UNCHANGED << log, singleCallVars >>

\* make_parser() and the construction of the handler in thread t
ThreadSAXBegin(t) ==
    LET c == threads[t]
    IN /\ c.pc = "Parsing"
       /\ c.strategy = "SAX"
       /\ ~c.attempted
       /\ threads' = ThreadStore(threads, t,
             IF c.op = "parse"
             THEN [c EXCEPT !.attempted = TRUE, !.pos = 0,
                            !.handler = SAXSearchHandlerInit]
             ELSE [c EXCEPT !.attempted = TRUE, !.pos = 0,
                            !.collector = SAXAttributeCollectorInit(
                                 c.query.element_name, c.query.attribute_name)])
       /\ UNCHANGED << log, singleCallVars >>

\* parser.parse in thread t delivers the next event to the thread's handler.
ThreadSAXEvent(t) ==
    LET c == threads[t]
        d == c.file.doc
    IN /\ c.pc = "Parsing"
       /\ c.strategy = "SAX"
       /\ c.attempted
       /\ c.pos < Len(Events(d))
       /\ threads' = ThreadStore(threads, t,
             IF c.op = "parse"
             THEN [c EXCEPT !.pos = @ + 1,
                            !.handler = SAXDispatch(@, c.query, d, Events(d)[c.pos + 1])]
             ELSE [c EXCEPT !.pos = @ + 1,
                            !.collector = SAXCollectDispatch(@, d, Events(d)[c.pos + 1])])
       /\ UNCHANGED << log, singleCallVars >>

\* parser.parse has returned in thread t: result, log line, return.
ThreadSAXReturn(t) ==
    LET c == threads[t]
    IN /\ c.pc = "Parsing"
       /\ c.strategy = "SAX"
       /\ c.attempted
       /\ c.file.wellformed
       /\ c.pos = Len(Events(c.file.doc))
       /\ threads' = ThreadStore(threads, t,
             [c EXCEPT !.pc = "Done",
                       !.returned = Some(ReturnValue(c.op, c.strategy, c.query,
                                                     c.handler.results,
                                                     c.collector.attributes,
                                                     c.collector.values))])
       /\ log' = LogAfter(log, c.op, c.strategy, c.path, c.query, c.handler.results)
       /\ UNCHANGED singleCallVars

\* The walkers of the two tree strategies, one invocation on element i.
SearchNode(s, d, i, q, path_) ==
    IF s = "DOM" THEN DOMSearchNode(d, i, q, path_) ELSE ETSearchNode(d, i, q, path_)

CollectNode(s, d, i, element_name) ==
    IF s = "DOM" THEN DOMCollectNode(d, i, element_name)
    ELSE ETCollectNode(d, i, element_name)

CollectValuesNode(s, d, i, element_name, attribute_name) ==
    IF s = "DOM" THEN DOMCollectValuesNode(d, i, element_name, attribute_name)
    ELSE ETCollectValuesNode(d, i, element_name, attribute_name)

\* minidom.parse or ET.parse in thread t, and the empty results list or set.
ThreadTreeParse(t) ==
    LET c == threads[t]
    IN /\ c.pc = "Parsing"
       /\ c.strategy \in {"DOM", "ET"}
       /\ threads' = ThreadStore(threads, t,
             IF c.file.wellformed
             THEN [c EXCEPT !.pc = "Searching", !.attempted = TRUE,
                            !.stack = << [node |-> 1, path |-> << >>] >>,
                            !.results = << >>, !.attributes = {}, !.values = {}]
             ELSE [c EXCEPT !.pc = "Failed", !.attempted = TRUE,
                            !.failure = Some(Raised("malformed"))])
       /\ UNCHANGED << log, singleCallVars >>

\* One invocation of the walker in thread t.
ThreadTreeVisit(t) ==
    LET c == threads[t]
        d == c.file.doc
        f == Head(c.stack)
        current_path == Append(f.path, TagOf(c.strategy, d[f.node]))
    IN /\ c.pc = "Searching"
       /\ c.stack # << >>
       /\ threads' = ThreadStore(threads, t,
             [c EXCEPT
                !.stack = ChildFrames(d, f.node, current_path) \o Tail(c.stack),
                !.results = IF c.op = "parse"
                            THEN @ \o SearchNode(c.strategy, d, f.node, c.query, f.path)
                            ELSE @,
                !.attributes = IF c.op = "get_available_attributes"
                               THEN @ \cup CollectNode(c.strategy, d, f.node,
                                                       c.query.element_name)
                               ELSE @,
                !.values = IF c.op = "get_attribute_values"
                           THEN @ \cup CollectValuesNode(c.strategy, d, f.node,
                                                         c.query.element_name,
                                                         c.query.attribute_name[1])
                           ELSE @])
       /\ UNCHANGED << log, singleCallVars >>

\* The walk of thread t is over: result, log line, return.
ThreadTreeReturn(t) ==
    LET c == threads[t]
    IN /\ c.pc = "Searching"
       /\ c.stack = << >>
       /\ threads' = ThreadStore(threads, t,
             [c EXCEPT !.pc = "Done",
                       !.returned = Some(ReturnValue(c.op, c.strategy, c.query,
                                                     c.results, c.attributes,
                                                     c.values))])
       /\ log' = LogAfter(log, c.op, c.strategy, c.path, c.query, c.results)
       /\ UNCHANGED singleCallVars

NextThreads ==
    \E t \in 1..MaxThreads :
        \/ ThreadValidate(t)
        \/ ThreadSAXBegin(t)
        \/ ThreadSAXEvent(t)
        \/ ThreadSAXReturn(t)
        \/ ThreadTreeParse(t)
        \/ ThreadTreeVisit(t)
        \/ ThreadTreeReturn(t)

SpecThreads ==
    InitThreads /\ [][NextThreads]_vars

\* The SAXAttributeCollector after the events k+1.. of evs.
RECURSIVE SAXCollectRun(_, _, _, _)
SAXCollectRun(c, d, evs, k) ==
    IF k >= Len(evs) THEN c
    ELSE SAXCollectRun(SAXCollectDispatch(c, d, evs[k + 1]), d, evs, k + 1)

\* What operation o of strategy s returns for well-formed document d and
\* arguments q when nothing else is running.
ResultAlone(s, o, d, q) ==
    IF o = "parse" THEN SearchResult(q, ParseElements(s, d, q), ParserName(s))
    ELSE IF s = "SAX"
    THEN LET c == SAXCollectRun(SAXAttributeCollectorInit(q.element_name,
                                                          q.attribute_name),
                                d, Events(d), 0)
         IN IF o = "get_available_attributes" THEN c.attributes ELSE c.values
    ELSE IF o = "get_available_attributes"
    THEN UNION { CollectNode(s, d, i, q.element_name) : i \in 1..Len(d) }
    ELSE UNION { CollectValuesNode(s, d, i, q.element_name, q.attribute_name[1]) :
                 i \in 1..Len(d) }

(* ------------------------------------------------------------------ *)
(* Properties                                                          *)
(* ------------------------------------------------------------------ *)

\* C1: for every well-formed document and query, the three strategies return
\* the same sequence of (tag, attributes, trimmed text, path) tuples.
CrossStrategyEquivalence ==
    ParseDone =>
        \A s \in Strategies :
            Tuples(ParseElements(s, file.doc, query)) = Tuples(returned[1].elements)

\* C2: the path of every returned element is the "/"-joined sequence of the
\* tags of its ancestors, from the root down to the element itself.
PathIsAncestorChain ==
    ParseDone =>
        \A k \in 1..Len(returned[1].elements) :
            LET e == returned[1].elements[k]
                chain == AncestorChain(file.doc, e.node)
            IN e.path = Join([j \in 1..Len(chain) |-> TagOf(strategy, file.doc[chain[j]])])

\* C2 witness: the streaming strategy has returned an element that has an
\* earlier sibling, and an element two levels below the root.
PathWitness ==
    /\ ParseDone
    /\ strategy = "SAX"
    /\ Len(file.doc) = 3
    /\ 3 \in ReturnedNodes
    /\ file.doc[3].parent = 1
    /\ file.doc[2].parent = 1

\* C3: every operation validates the file before any parsing starts: a missing
\* path fails with FileNotFoundError, a path that is not a regular file with
\* ValueError("Path is not a file"), nothing is parsed and nothing returned.
ValidationPrecedesParsing ==
    /\ attempted => file.kind = "file"
    /\ pc \in {"Idle", "Validating"} => ~attempted
    /\ (file.kind = "missing" /\ pc \notin {"Idle", "Validating"}) =>
          (pc = "Failed" /\ failure = Some(FileNotFound) /\ returned = None)
    /\ (file.kind = "dir" /\ pc \notin {"Idle", "Validating"}) =>
          (pc = "Failed" /\ failure = Some(NotAFile) /\ returned = None)

\* C3 witness: a discovery call on a directory has failed.
ValidationWitness ==
    /\ pc = "Failed"
    /\ file.kind = "dir"
    /\ op = "get_attribute_values"
    /\ strategy = "DOM"

\* C4: on a document that is not well-formed every operation fails with
\* ValueError("Failed to parse XML") and returns nothing, whatever the handler
\* collected before the error.
MalformedFailsWithoutResult ==
    (file.kind = "file" /\ ~file.wellformed) =>
        /\ returned = None
        /\ pc # "Done"
        /\ pc = "Failed" => failure = Some(ParseFailed)

\* C4 witness: the streaming parse failed after its handler had collected a
\* match.
MalformedWitness ==
    /\ pc = "Failed"
    /\ strategy = "SAX"
    /\ op = "parse"
    /\ ~file.wellformed
    /\ handler.results # << >>

\* Why a call on the file fails, if it fails.
FailureCause ==
    IF file.kind = "missing" THEN "missing"
    ELSE IF file.kind = "dir" THEN "not_a_file"
    ELSE "malformed"

\* C5: the kind (exception type) of a failure identifies its cause: no other
\* cause raises the same kind.
FailureKindIdentifiesCause ==
    pc = "Failed" =>
        \A c \in {"missing", "not_a_file", "malformed"} :
            Raised(c).type = failure[1].type => c = FailureCause

\* The phase of a call.  The tree strategies search after the parse; the
\* streaming strategy evaluates the query inside parser.parse, so it is
\* searching from its first startElement on.
Phase ==
    IF strategy = "SAX" /\ pc = "Parsing" /\ searched THEN "Searching" ELSE pc

PhaseSteps ==
    { << "Idle", "Validating" >>, << "Validating", "Parsing" >>,
      << "Parsing", "Searching" >>, << "Searching", "Done" >>,
      << "Validating", "Failed" >>, << "Parsing", "Failed" >> }

\* A parse call that is Done has returned a SearchResult for its query.
DoneWithSearchResult ==
    pc = "Done" =>
        /\ returned # None
        /\ returned[1].query = query
        /\ returned[1].parser_type = ParserName(strategy)

\* C6 as claimed: every parse call moves through Idle, Validating, Parsing,
\* Searching, Done in that order, only Validating and Parsing move to Failed,
\* and a call that has started Searching ends in Done with a SearchResult.
CallPhasesAsClaimed ==
    [][ op' = "parse" =>
          /\ Phase' = Phase \/ << Phase, Phase' >> \in PhaseSteps
          /\ DoneWithSearchResult' ]_vars

\* C6 amended: as claimed for the tree strategies; the streaming strategy
\* evaluates the query while the document is still being parsed, so it alone
\* can move from Searching to Failed, and only on a document that is not
\* well-formed, with ValueError("Failed to parse XML").
CallPhases ==
    [][ op' = "parse" =>
          /\ \/ Phase' = Phase
             \/ << Phase, Phase' >> \in PhaseSteps
             \/ /\ Phase = "Searching"
                /\ Phase' = "Failed"
                /\ strategy = "SAX"
                /\ ~file.wellformed
                /\ failure' = Some(ParseFailed)
          /\ DoneWithSearchResult' ]_vars

\* C6 witness: a streaming parse failed after it had evaluated the query
\* against an element.
StreamingFailedWhileSearching ==
    /\ pc = "Failed"
    /\ op = "parse"
    /\ strategy = "SAX"
    /\ searched

\* C7: parse returns an element exactly when its tag equals
\* query.element_name ignoring case and the attribute and text filters pass
\* (each on what the strategy hands it for that element).
NameFilterExact ==
    ParseDone =>
        \A i \in 1..Len(file.doc) :
            i \in ReturnedNodes <=>
                /\ Lower(TagOf(strategy, file.doc[i])) = Lower(query.element_name)
                /\ matches_attribute(query, AttrsOf(strategy, file.doc[i]))
                /\ matches_text(query, FilterText(strategy, file.doc, i))

\* matches_attribute has been applied.
AttributeMatched ==
    match.fn = "matches_attribute" /\ match.result # None

\* C8 as claimed: true when attribute_name or attribute_value is None;
\* otherwise true exactly when the mapping holds attribute_name with a value
\* equal to attribute_value, for every given value including "".
MatchesAttributeAsClaimed ==
    AttributeMatched =>
        match.result[1] =
            IF match.query.attribute_name = None \/ match.query.attribute_value = None
            THEN TRUE
            ELSE /\ match.query.attribute_name[1] \in DOMAIN match.arg
                 /\ match.arg[match.query.attribute_name[1]] = match.query.attribute_value[1]

\* C8 amended: true when attribute_name or attribute_value is None or the
\* empty string; when both are non-empty, true exactly when the mapping holds
\* attribute_name with a value equal to attribute_value (case-sensitive).
MatchesAttributeExact ==
    AttributeMatched =>
        match.result[1] =
            IF \/ match.query.attribute_name \in {None, Some(<< >>)}
               \/ match.query.attribute_value \in {None, Some(<< >>)}
            THEN TRUE
            ELSE /\ match.query.attribute_name[1] \in DOMAIN match.arg
                 /\ match.arg[match.query.attribute_name[1]] = match.query.attribute_value[1]

\* C8 witness: a query with attribute_name "k" and attribute_value "" matched
\* a mapping that does not hold "k".
EmptyValueMatchesAll ==
    /\ AttributeMatched
    /\ match.query.attribute_name = Some(<< "k" >>)
    /\ match.query.attribute_value = Some(<< >>)
    /\ << "k" >> \notin DOMAIN match.arg
    /\ match.result = Some(TRUE)

\* matches_text has been applied.
TextMatched ==
    match.fn = "matches_text" /\ match.result # None

\* C9: matches_text is true when text_contains is absent, and otherwise true
\* exactly when text_contains occurs in the text at some offset, letter case
\* ignored.
MatchesTextSubstring ==
    TextMatched =>
        match.result[1] =
            \/ match.query.text_contains = None
            \/ LET needle == match.query.text_contains[1]
                   text == match.arg
               IN \E off \in 0..(Len(text) - Len(needle)) :
                     \A j \in 1..Len(needle) :
                        LowerChar(needle[j]) = LowerChar(text[off + j])

\* C9 witness: "cat" matched "Category A".
CatMatchesCategory ==
    /\ TextMatched
    /\ match.query.text_contains = Some(CatNeedle)
    /\ match.arg = CategoryText
    /\ match.result = Some(TRUE)

\* The elements whose tag equals element_name ignoring case.
NamedElements(s, d, element_name) ==
    { i \in 1..Len(d) : Lower(TagOf(s, d[i])) = Lower(element_name) }

DiscoveryRoundTrip ==
    ( /\ pc = "Done"
      /\ op = "get_attribute_values"
      /\ previous # None
      /\ previous[1].op = "get_available_attributes" ) =>
        /\ previous[1].query.element_name = query.element_name
        /\ (query.attribute_name[1] \in previous[1].returned) <=> (returned[1] # {})

\* C12 witness: the name K was discovered and then asked for, and a value came
\* back.
DiscoveryRoundTripWitness ==
    /\ pc = "Done"
    /\ op = "get_attribute_values"
    /\ previous # None
    /\ previous[1].op = "get_available_attributes"
    /\ query.attribute_name = Some(<< "K" >>)
    /\ << "K" >> \in previous[1].returned
    /\ returned = Some({ << "v" >> })

\* C14: a parse call repeated with the same arguments on the same strategy
\* instance and the same unmodified file returns the same sequence of (tag,
\* attributes, text, path) tuples as the call before it.
RepeatedParseEqual ==
    (ParseDone /\ previous # None) =>
        /\ previous[1].op = "parse"
        /\ previous[1].query = query
        /\ Tuples(returned[1].elements) = Tuples(previous[1].returned.elements)

\* C14 witness: a streaming parse that had found elements was repeated and has
\* returned again.
RepeatedParseWitness ==
    /\ ParseDone
    /\ strategy = "SAX"
    /\ calls = 2
    /\ previous # None
    /\ Len(previous[1].returned.elements) = 2
    /\ Len(returned[1].elements) = 2

\* C13: on a well-formed document in which no element's tag equals
\* query.element_name ignoring case, parse never fails, and when it is Done it
\* has returned a SearchResult with an empty element sequence.
AbsentNameGivesEmpty ==
    ( /\ op = "parse"
      /\ file.kind = "file"
      /\ file.wellformed
      /\ NamedElements(strategy, file.doc, query.element_name) = {} ) =>
        /\ pc # "Failed"
        /\ failure = None
        /\ pc = "Done" => (returned # None /\ returned[1].elements = << >>)

\* C13 witness: a parse of a three-element document that holds no element of
\* the name asked for is Done with an empty result.
AbsentNameWitness ==
    /\ ParseDone
    /\ Len(file.doc) = 3
    /\ NamedElements(strategy, file.doc, query.element_name) = {}
    /\ returned[1].elements = << >>
    /\ query.attribute_name = None
    /\ query.text_contains = None

\* The parse calls that have returned a SearchResult so far.
CompletedSearches ==
    IF op # "parse" THEN 0
    ELSE IF pc = "Done" THEN calls
    ELSE calls - 1

\* C16: the log holds exactly one filtering entry per parse call that has
\* returned; the entry of the call that has just returned carries the strategy
\* name, the file name, the element name and the number of elements of the
\* returned result.  A failed parse and the discovery calls append nothing.
OneLogLinePerSearch ==
    /\ Len(log) = CompletedSearches
    /\ ParseDone =>
          log[Len(log)] = [level |-> "FILTERING",
                           parser |-> ParserName(strategy),
                           file |-> FileName,
                           element |-> query.element_name,
                           found |-> Len(returned[1].elements)]
    /\ pc = "Failed" => log = << >>

\* C16 witness: the second of two parse calls has returned two elements and
\* the log holds two entries.
OneLogLineWitness ==
    /\ ParseDone
    /\ calls = 2
    /\ Len(returned[1].elements) = 2
    /\ Len(log) = 2

\* An optional block of the converted document read back: "" or the empty
\* mapping when the block is absent.
ReadBack(block, empty) ==
    IF block = None THEN empty ELSE block[1]

\* C17: the results block of the converted document holds one entry per
\* ParsedElement of the result, in the same order, each with that element's
\* tag, path, attributes and text unchanged, and resultsCount is the number of
\* entries.
ConvertedMirrorsResult ==
    xml # None =>
        LET elements == xml[1].result.elements
            entries == xml[1].document.results
        IN /\ Len(entries) = Len(elements)
           /\ xml[1].document.metadata.resultsCount = IntToStr(Len(entries))
           /\ \A k \in 1..Len(elements) :
                 /\ entries[k].tag = elements[k].tag
                 /\ ReadBack(entries[k].path, << >>) = elements[k].path
                 /\ ReadBack(entries[k].attributes, << >>) = elements[k].attributes
                 /\ ReadBack(entries[k].text, << >>) = elements[k].text

\* The streaming parse is about to be handed event ev.
SAXDelivers(ev) ==
    /\ strategy = "SAX"
    /\ op = "parse"
    /\ pc = "Parsing"
    /\ attempted
    /\ pos < Len(Events(file.doc))
    /\ ev = Events(file.doc)[pos + 1]
    /\ pos' = pos + 1

\* C18: in the streaming strategy the candidate is finalized (text stripped,
\* text filter evaluated, appended only if it passes, slot cleared) at the
\* end-tag that closes the candidate element itself, and no other end-tag
\* changes the candidate or the results.
CandidateFinalizedAtOwnEndTag ==
    [][ \A i \in 1..Len(file.doc) :
          SAXDelivers([type |-> "endElement", node |-> i, content |-> << >>]) =>
            IF handler.current_element # None /\ handler.current_element[1].node = i
            THEN LET e == [handler.current_element[1] EXCEPT
                              !.text = Strip(handler.current_text)]
                 IN /\ handler'.current_element = None
                    /\ handler'.results = IF matches_text(query, e.text)
                                          THEN Append(handler.results, e)
                                          ELSE handler.results
            ELSE /\ handler'.current_element = handler.current_element
                 /\ handler'.results = handler.results ]_vars

\* The character data of the events after the most recent startElement among
\* the first k events of evs.
RECURSIVE CharsSinceLastStartTag(_, _)
CharsSinceLastStartTag(evs, k) ==
    IF k = 0 \/ evs[k].type = "startElement" THEN << >>
    ELSE CharsSinceLastStartTag(evs, k - 1) \o evs[k].content

\* The next event of the streaming parse is the end-tag of the element the
\* candidate was created for.
CandidateAboutToEnd ==
    /\ strategy = "SAX"
    /\ op = "parse"
    /\ pc = "Parsing"
    /\ attempted
    /\ pos < Len(Events(file.doc))
    /\ Events(file.doc)[pos + 1].type = "endElement"
    /\ handler.current_element # None
    /\ handler.current_element[1].node = Events(file.doc)[pos + 1].node

\* C19: the text buffer is reset on start-tags only, so when a candidate
\* reaches its end-tag the buffer (the text about to be recorded for it) is the
\* concatenation of all character data since the most recent start-tag, the
\* character data of its last child included.
BufferHoldsTextSinceLastStartTag ==
    CandidateAboutToEnd =>
        handler.current_text = CharsSinceLastStartTag(Events(file.doc), pos)

\* The elements of d that pass the three filters of q as strategy s evaluates
\* them.
MatchingElements(s, d, q) ==
    { i \in 1..Len(d) :
        /\ matches_element(q, TagOf(s, d[i]))
        /\ matches_attribute(q, AttrsOf(s, d[i]))
        /\ matches_text(q, FilterText(s, d, i)) }

\* C20: the tree strategies invoke the walker on every element exactly once,
\* in depth-first pre-order (document order), whether or not the element
\* matched; the result holds every matching element, nested ones included, in
\* pre-order, an outer element before the elements it contains.
TreeWalkIsPreOrder ==
    (strategy \in {"DOM", "ET"} /\ pc \in {"Searching", "Done"}) =>
        /\ visited = [i \in 1..Len(visited) |-> i]
        /\ pc = "Done" => Len(visited) = Len(file.doc)
        /\ ParseDone =>
              LET elements == returned[1].elements
              IN /\ \A k \in 1..(Len(elements) - 1) :
                        elements[k].node < elements[k + 1].node
                 /\ ReturnedNodes = MatchingElements(strategy, file.doc, query)

\* C20 witness: ElementTree has returned the root and, after it, an element
\* two levels below it, having passed through an element that did not match.
TreeWalkWitness ==
    /\ ParseDone
    /\ strategy = "ET"
    /\ Len(file.doc) = 3
    /\ file.doc[2].parent = 1
    /\ file.doc[3].parent = 2
    /\ Len(returned[1].elements) = 2
    /\ returned[1].elements[1].node = 1
    /\ returned[1].elements[2].node = 3

\* C15: parallel calls do not interfere: under every interleaving, a call that
\* has returned has returned what it returns when run alone, and a call that
\* has failed has failed as it does alone.
CallsDoNotInterfere ==
    \A t \in DOMAIN threads :
        LET c == threads[t]
        IN /\ c.pc = "Done" =>
                /\ c.file.kind = "file"
                /\ c.returned = Some(ResultAlone(c.strategy, c.op, c.file.doc, c.query))
           /\ c.pc = "Failed" =>
                /\ c.file.kind = "missing"
                /\ c.failure = Some(FileNotFound)
                /\ c.returned = None

\* C15 witness: a streaming search has run and returned while a tree search of
\* the same file, in another thread, was in the middle of its walk with an
\* element already found.
CallsInParallelWitness ==
    /\ threads # << >>
    /\ threads[1].strategy = "DOM" /\ threads[2].strategy = "SAX"
    /\ threads[1].op = "parse" /\ threads[2].op = "parse"
    /\ threads[1].path = threads[2].path
    /\ threads[1].pc = "Searching"
    /\ threads[1].stack # << >>
    /\ threads[1].results # << >>
    /\ threads[2].pc = "Done"
    /\ Len(threads[2].returned[1].elements) = 1
    /\ Len(log) = 1

\* C21: in every strategy the tag of each returned element is the local name
\* of the element, namespace qualifier removed, and its path is made of the
\* local names of its ancestors and itself.
TagIsLocalName ==
    ParseDone =>
        \A k \in 1..Len(returned[1].elements) :
            LET e == returned[1].elements[k]
                chain == AncestorChain(file.doc, e.node)
            IN /\ e.tag = file.doc[e.node].local
               /\ e.path = Join([j \in 1..Len(chain) |-> file.doc[chain[j]].local])

(* ------------------------------------------------------------------ *)
(* A result in the caller's hands while later calls run                *)
(* ------------------------------------------------------------------ *)

\* What the caller may do once parse has handed it a SearchResult: any
\* operation of any strategy on the same file.
LaterCalls ==
    UNION { { << s, o, q >> : s \in Strategies, q \in ThreadQueries(o) } : o \in Ops }

\* The caller keeps the SearchResult of the parse that has returned and calls
\* operation o of strategy s.  The elements field of the SearchResult is the
\* list object the parse collected into, number `lists` of the lists made.
CallLater(s, o, q) ==
    /\ pc = "Done"
    /\ op = "parse"
    /\ calls < MaxCalls
    /\ pc' = "Validating"
    /\ strategy' = s
    /\ op' = o
    /\ query' = q
    /\ calls' = calls + 1
    /\ previous' = Some([strategy |-> strategy, op |-> op, query |-> query,
                         returned |-> returned[1], list |-> lists])
    /\ returned' = None
    /\ attempted' = FALSE
    /\ searched' = FALSE
    /\ UNCHANGED << ui, logger, lists, match, threads, xml, visited, file, pos,
                    handler, collector, stack, results, attributes, values,
                    failure, log >>

NextLater ==
    \/ \E s \in Strategies, o \in Ops :
          \E q \in Queries(o) : Call(s, o, q)
    \/ ValidateFile
    \/ SAXBegin
    \/ SAXEvent
    \/ SAXParseError
    \/ SAXReturn
    \/ DOMParse
    \/ DOMVisit
    \/ DOMReturn
    \/ ETParse
    \/ ETVisit
    \/ ETReturn
    \/ \E c \in LaterCalls : CallLater(c[1], c[2], c[3])

SpecLater ==
    Init /\ [][NextLater]_vars

\* The elements of the SearchResult in the caller's hands as the caller finds
\* them now: the contents of the list object the field refers to.  While no
\* other list has been made, that object is the one the handler (SAX) or the
\* walk (DOM, ET) of the earlier call collected into.
HeldElements ==
    IF previous[1].list = lists
    THEN IF previous[1].strategy = "SAX" THEN handler.results ELSE results
    ELSE previous[1].returned.elements

\* C22: a SearchResult in the caller's hands is not changed by any step of a
\* later parse or discovery call of the same or of another strategy, and no
\* step of a call changes the fields of the query the call was given.
ResultAndQueryAreNotTouched ==
    [][ /\ (pc \in {"Validating", "Parsing", "Searching"} => query' = query)
        /\ (previous' # None =>
               HeldElements' = previous'[1].returned.elements) ]_vars

\* A later parse of the SAX strategy has returned elements of its own while
\* the caller still holds the different result of an earlier SAX parse.
HeldResultWitness ==
    /\ previous # None
    /\ pc = "Done"
    /\ op = "parse"
    /\ strategy = "SAX"
    /\ previous[1].strategy = "SAX"
    /\ Len(previous[1].returned.elements) > 0
    /\ Len(returned[1].elements) > 0
    /\ returned[1].elements # previous[1].returned.elements

\* The elements of d whose start-tag is among the first k events and whose
\* end-tag is not.
OpenElements(d, k) ==
    LET evs == Events(d)
    IN { n \in 1..Len(d) :
           /\ \E i \in 1..k : evs[i].type = "startElement" /\ evs[i].node = n
           /\ ~\E i \in 1..k : evs[i].type = "endElement" /\ evs[i].node = n }

\* The elements of d that became the candidate of the streaming handler: those
\* whose start-tag passes the name filter and the attribute filter.
Candidates(d, q) ==
    { n \in 1..Len(d) : /\ matches_element(q, QName(d[n]))
                        /\ matches_attribute(q, MarkupAttrs(d[n])) }

\* C25: after every event the path stack of the streaming handler holds the
\* tags of exactly the open elements, outermost first; at the end of the
\* document the stack and the candidate slot are empty and every element
\* that became a candidate is in the results unless a text filter is set.
StreamingHandlerInvariant ==
    (strategy = "SAX" /\ op = "parse" /\ attempted /\ pc \in {"Parsing", "Done"}) =>
        LET d == file.doc
            open == OpenElements(d, pos)
        IN /\ Len(handler.current_path) = Cardinality(open)
           /\ \A n \in open :
                 LET chain == AncestorChain(d, n)
                 IN /\ SeqToSet(chain) \subseteq open
                    /\ handler.current_path[Len(chain)] = QName(d[n])
           /\ pos = Len(Events(d)) =>
                 /\ handler.current_path = << >>
                 /\ handler.current_element = None
                 /\ Falsy(query.text_contains) =>
                       Candidates(d, query) \subseteq
                         { handler.results[k].node : k \in 1..Len(handler.results) }

\* C26: every element a parse returns passes the three filters of the query
\* the call was given: the name filter on its tag, the attribute filter on
\* its attributes and the text filter on its text.
ReturnedElementsMatchQuery ==
    ParseDone =>
        \A k \in 1..Len(returned[1].elements) :
            LET e == returned[1].elements[k]
            IN /\ matches_element(query, e.tag)
               /\ matches_attribute(query, e.attributes)
               /\ matches_text(query, e.text)

(* ------------------------------------------------------------------ *)
(* A call that keeps running                                           *)
(* ------------------------------------------------------------------ *)

\* The thread that executes the call is scheduled again and again: a call
\* that can take a step eventually takes one.
NextFair ==
    \/ \E c \in LaterCalls : Call(c[1], c[2], c[3])
    \/ ValidateFile
    \/ SAXBegin
    \/ SAXEvent
    \/ SAXParseError
    \/ SAXReturn
    \/ DOMParse
    \/ DOMVisit
    \/ DOMReturn
    \/ ETParse
    \/ ETVisit
    \/ ETReturn

\* The files the calls of this specification are made on: no file, a
\* directory, and the well-formed and the broken files whose elements all
\* carry an attribute k.
FairFiles ==
    {Missing, Directory}
    \cup { RegularFile(d, wf) :
             d \in { e \in Docs : \A i \in 1..Len(e) : << "k" >> \in DOMAIN e[i].attrs },
             wf \in BOOLEAN }

InitFair ==
    Init /\ file \in FairFiles

SpecFair ==
    InitFair /\ [][NextFair]_vars /\ WF_vars(NextFair)

\* C30: every parse and discovery call that has been entered ends, and it
\* ends in exactly one way: it returns (Done, with a return value and no
\* exception) or it raises (Failed, with an exception and no return value),
\* and the way it ended does not change afterwards.
CallTerminates ==
    /\ (pc = "Validating") ~> (pc \in {"Done", "Failed"})
    /\ [](pc = "Done" => returned # None /\ failure = None)
    /\ [](pc = "Failed" => returned = None /\ failure # None)
    /\ [][ (pc \in {"Done", "Failed"}) => (pc' = pc) ]_vars

\* A discovery of attribute values by the DOM strategy has returned after
\* the walk visited a document of the largest size.
CallTerminatesWitness ==
    /\ pc = "Done"
    /\ strategy = "DOM"
    /\ op = "get_attribute_values"
    /\ Len(visited) = MaxNodes

(* ------------------------------------------------------------------ *)
(* The Logger singleton used by several threads                        *)
(*                                                                     *)
(* logger holds the class attributes (_instance, _initialized, _lock), *)
(* the objects __new__ has created (each with its _log_file_path, or   *)
(* without one), the log files, and for every thread the statement it  *)
(* is at and its locals.  An object is named by its number, 0 is None. *)
(* A log entry is written in two parts; paths and cleared record what  *)
(* the initializations assigned and what clear_log removed.            *)
(* ------------------------------------------------------------------ *)

LogPaths == { "application.log", "other.log" }

LoggerThreadStart ==
    [pc |-> "idle", arg |-> "", obj |-> 0, mine |-> 0, got |-> {},
     done |-> 0, entry |-> << >>, logged |-> {}, raised |-> FALSE]

\* The class as the module defines it, before any thread has used it.
LoggerLoaded ==
    [instance |-> 0, initialized |-> FALSE, lock |-> 0, objects |-> << >>,
     files |-> [p \in LogPaths |-> << >>],
     thr |-> [t \in 1..MaxLoggerThreads |-> LoggerThreadStart],
     paths |-> << >>, cleared |-> {}]

LoggerInit ==
    /\ logger = LoggerLoaded
    /\ ui = NoWindow
    /\ lists = 0
    /\ match = NoMatch
    /\ file = Missing
    /\ pc = "Idle"
    /\ strategy = ""
    /\ op = ""
    /\ query = NoQuery
    /\ attempted = FALSE
    /\ searched = FALSE
    /\ pos = 0
    /\ handler = SAXSearchHandlerInit
    /\ collector = NoCollector
    /\ stack = << >>
    /\ results = << >>
    /\ attributes = {}
    /\ values = {}
    /\ returned = None
    /\ failure = None
    /\ log = << >>
    /\ visited = << >>
    /\ xml = None
    /\ calls = 0
    /\ previous = None
    /\ threads = << >>

notLogger ==
    << file, pc, strategy, op, query, attempted, searched, pos, handler,
       collector, stack, results, attributes, values, returned, failure, log,
       match, visited, xml, calls, previous, threads, lists, ui >>

\* A thread is between two operations and has operations left to perform.
LoggerIdle(t) ==
    /\ logger.thr[t].pc = "idle"
    /\ logger.thr[t].done < MaxLoggerOps

\* The lock as it would be if it excluded nobody.
LockNeverHeld(L) ==
    TRUE

\* `with Logger._lock:` can be entered.
LockFree(L) ==
    L.lock = 0

\* __new__ as it would be without the second check under the lock.
NewCreatesUnchecked(L) ==
    TRUE

\* Line 31, the second check of the double-checked locking.
NewMustCreate(L) ==
    L.instance = 0

\* open(self._log_file_path, 'a') followed by a write: the data goes to the
\* end of the file.
AppendToFile(content, data) ==
    Append(content, data)

\* The operation of thread t ends: Logger() returns r.
LoggerReturns(L, t, r) ==
    [L EXCEPT !.thr[t].pc = "idle", !.thr[t].done = @ + 1,
              !.thr[t].mine = r, !.thr[t].got = @ \cup {r}]

\* Logger(a) is called; __new__ tests cls._instance (line 28).
LoggerNewCheck(t, a) ==
    /\ LoggerIdle(t)
    /\ logger' = [logger EXCEPT !.thr[t].arg = a,
                     !.thr[t].pc = IF logger.instance = 0
                                   THEN "new_lock" ELSE "new_return"]
    /\ UNCHANGED notLogger

\* __new__ enters `with cls._lock:` (line 29).
LoggerNewLock(t) ==
    /\ logger.thr[t].pc = "new_lock"
    /\ LockFree(logger)
    /\ logger' = [logger EXCEPT !.lock = t, !.thr[t].pc = "new_locked"]
    /\ UNCHANGED notLogger

\* __new__ under the lock (lines 31-32) and the end of the with block.
LoggerNewLocked(t) ==
    /\ logger.thr[t].pc = "new_locked"
    /\ logger' =
         IF NewMustCreate(logger)
         THEN [logger EXCEPT !.objects = Append(@, None),
                             !.instance = Len(logger.objects) + 1,
                             !.lock = 0, !.thr[t].pc = "new_return"]
         ELSE [logger EXCEPT !.lock = 0, !.thr[t].pc = "new_return"]
    /\ UNCHANGED notLogger

\* `return cls._instance` (line 33) reads the class attribute again.  An
\* object that is not a Logger (None) is returned to the caller of Logger()
\* without a call of __init__.
LoggerNewReturn(t) ==
    /\ logger.thr[t].pc = "new_return"
    /\ logger' =
         IF logger.instance = 0
         THEN LoggerReturns([logger EXCEPT !.thr[t].obj = 0], t, 0)
         ELSE [logger EXCEPT !.thr[t].obj = logger.instance,
                             !.thr[t].pc = "init_check"]
    /\ UNCHANGED notLogger

\* __init__ tests Logger._initialized (lines 43-44).
LoggerInitCheck(t) ==
    /\ logger.thr[t].pc = "init_check"
    /\ logger' =
         IF logger.initialized
         THEN LoggerReturns(logger, t, logger.thr[t].obj)
         ELSE [logger EXCEPT !.thr[t].pc = "init_lock"]
    /\ UNCHANGED notLogger

\* __init__ enters `with Logger._lock:` (line 46).
LoggerInitLock(t) ==
    /\ logger.thr[t].pc = "init_lock"
    /\ LockFree(logger)
    /\ logger' = [logger EXCEPT !.lock = t, !.thr[t].pc = "init_locked"]
    /\ UNCHANGED notLogger

\* __init__ under the lock (lines 47-52) and the end of the with block.
LoggerInitLocked(t) ==
    /\ logger.thr[t].pc = "init_locked"
    /\ logger' =
         IF logger.initialized
         THEN LoggerReturns([logger EXCEPT !.lock = 0], t, logger.thr[t].obj)
         ELSE LoggerReturns(
                [logger EXCEPT !.objects[logger.thr[t].obj] = Some(logger.thr[t].arg),
                               !.paths = Append(@, logger.thr[t].arg),
                               !.initialized = TRUE,
                               !.lock = 0],
                t, logger.thr[t].obj)
    /\ UNCHANGED notLogger

\* log is called on the instance the thread holds; the entry is formatted
\* and `with Logger._lock:` entered (lines 89-92).
LoggerLogLock(t) ==
    /\ LoggerIdle(t)
    /\ logger.thr[t].mine # 0
    /\ LockFree(logger)
    /\ logger' = [logger EXCEPT !.lock = t, !.thr[t].pc = "log_open",
                     !.thr[t].entry = << t, logger.thr[t].done + 1 >>]
    /\ UNCHANGED notLogger

\* open(self._log_file_path, 'a') and the first part of the entry (lines
\* 93-94).  An object without _log_file_path raises AttributeError.
LoggerLogOpen(t) ==
    /\ logger.thr[t].pc = "log_open"
    /\ LET o == logger.objects[logger.thr[t].mine]
       IN logger' =
            IF o = None
            THEN [logger EXCEPT !.lock = 0, !.thr[t].pc = "idle",
                                !.thr[t].done = @ + 1, !.thr[t].raised = TRUE]
            ELSE [logger EXCEPT !.files[o[1]] =
                                   AppendToFile(@, [entry |-> logger.thr[t].entry, part |-> 1]),
                                !.thr[t].pc = "log_write"]
    /\ UNCHANGED notLogger

\* The rest of the entry, the file is closed, the lock released, log returns.
LoggerLogWrite(t) ==
    /\ logger.thr[t].pc = "log_write"
    /\ LET o == logger.objects[logger.thr[t].mine]
       IN logger' =
            [logger EXCEPT !.files[o[1]] =
                              AppendToFile(@, [entry |-> logger.thr[t].entry, part |-> 2]),
                           !.lock = 0, !.thr[t].pc = "idle",
                           !.thr[t].done = @ + 1,
                           !.thr[t].logged = @ \cup {logger.thr[t].entry}]
    /\ UNCHANGED notLogger

\* clear_log is called on the instance the thread holds and enters
\* `with Logger._lock:` (line 137).
LoggerClearLock(t) ==
    /\ LoggerIdle(t)
    /\ logger.thr[t].mine # 0
    /\ LockFree(logger)
    /\ logger' = [logger EXCEPT !.lock = t, !.thr[t].pc = "clear_open"]
    /\ UNCHANGED notLogger

\* open(self._log_file_path, 'w') truncates the file (lines 138-139).
LoggerClearOpen(t) ==
    /\ logger.thr[t].pc = "clear_open"
    /\ LET o == logger.objects[logger.thr[t].mine]
       IN logger' =
            IF o = None
            THEN [logger EXCEPT !.lock = 0, !.thr[t].pc = "idle",
                                !.thr[t].done = @ + 1, !.thr[t].raised = TRUE]
            ELSE [logger EXCEPT !.cleared = @ \cup
                                   { logger.files[o[1]][i].entry :
                                       i \in 1..Len(logger.files[o[1]]) },
                                !.files[o[1]] = << >>,
                                !.lock = 0, !.thr[t].pc = "idle",
                                !.thr[t].done = @ + 1]
    /\ UNCHANGED notLogger

\* reset_instance enters `with cls._lock:` (line 146).
LoggerResetLock(t) ==
    /\ LoggerIdle(t)
    /\ LockFree(logger)
    /\ logger' = [logger EXCEPT !.lock = t, !.thr[t].pc = "reset_locked"]
    /\ UNCHANGED notLogger

\* reset_instance under the lock (lines 147-148).
LoggerResetLocked(t) ==
    /\ logger.thr[t].pc = "reset_locked"
    /\ logger' = [logger EXCEPT !.instance = 0, !.initialized = FALSE,
                     !.lock = 0, !.thr[t].pc = "idle", !.thr[t].done = @ + 1]
    /\ UNCHANGED notLogger

\* Threads that construct, log and clear; nobody calls reset_instance.
NextLogger ==
    \E t \in 1..MaxLoggerThreads :
        \/ \E a \in LogPaths : LoggerNewCheck(t, a)
        \/ LoggerNewLock(t)
        \/ LoggerNewLocked(t)
        \/ LoggerNewReturn(t)
        \/ LoggerInitCheck(t)
        \/ LoggerInitLock(t)
        \/ LoggerInitLocked(t)
        \/ LoggerLogLock(t)
        \/ LoggerLogOpen(t)
        \/ LoggerLogWrite(t)
        \/ LoggerClearLock(t)
        \/ LoggerClearOpen(t)

SpecLogger ==
    LoggerInit /\ [][NextLogger]_vars

\* The same threads when reset_instance is called as well.
NextLoggerReset ==
    \/ NextLogger
    \/ \E t \in 1..MaxLoggerThreads :
          \/ LoggerResetLock(t)
          \/ LoggerResetLocked(t)

SpecLoggerReset ==
    LoggerInit /\ [][NextLoggerReset]_vars

\* What the calls of Logger() have returned so far, in all threads.
LoggerReturned ==
    UNION { logger.thr[t].got : t \in 1..MaxLoggerThreads }

\* C23: when nobody calls reset_instance, all calls of Logger() in all
\* threads return one and the same instance, never None; one object is
\* created, it is initialized once, and the path it has when it is returned
\* is the path of that first initialization whatever log_file later calls pass.
SingletonInitializedOnce ==
    /\ Cardinality(LoggerReturned) <= 1
    /\ 0 \notin LoggerReturned
    /\ Len(logger.objects) <= 1
    /\ Len(logger.paths) <= 1
    /\ \A r \in LoggerReturned :
          /\ Len(logger.paths) = 1
          /\ logger.objects[r] = Some(logger.paths[1])

\* Two threads have each got the instance from Logger() although they
\* passed different log_file arguments.
SingletonWitness ==
    /\ \A t \in 1..MaxLoggerThreads : logger.thr[t].got # {}
    /\ \E t, u \in 1..MaxLoggerThreads : logger.thr[t].arg # logger.thr[u].arg

\* The entries whose last part is in a log file.
WrittenEntries ==
    { c.entry : c \in UNION { { logger.files[p][i] : i \in 1..Len(logger.files[p]) } :
                              p \in LogPaths } } \
    { logger.thr[t].entry : t \in { u \in 1..MaxLoggerThreads :
                                      logger.thr[u].pc = "log_write" } }

\* The entries of the log calls that have returned, in all threads.
LoggedEntries ==
    UNION { logger.thr[t].logged : t \in 1..MaxLoggerThreads }

\* C24: every log file consists of whole entries, each the two parts of one
\* log call next to each other (the last may still be in the writing), so no
\* entry is interleaved with another or cut by a clear_log; no log call
\* raised; and the files hold exactly the entries of the log calls that have
\* returned and that no later clear_log removed, each once.
LogEntriesWhole ==
    /\ \A p \in LogPaths :
          LET c == logger.files[p]
          IN \A i \in 1..Len(c) :
                IF c[i].part = 1
                THEN \/ i < Len(c) /\ c[i + 1] = [entry |-> c[i].entry, part |-> 2]
                     \/ /\ i = Len(c)
                        /\ logger.thr[c[i].entry[1]].pc = "log_write"
                        /\ logger.thr[c[i].entry[1]].entry = c[i].entry
                ELSE i > 1 /\ c[i - 1] = [entry |-> c[i].entry, part |-> 1]
    /\ \A t \in 1..MaxLoggerThreads : ~logger.thr[t].raised
    /\ WrittenEntries = LoggedEntries \ logger.cleared
    /\ \A p \in LogPaths :
          \A i, j \in 1..Len(logger.files[p]) :
             logger.files[p][i] = logger.files[p][j] => i = j

\* A clear_log has removed an entry and two log calls that returned after it
\* have their entries in the file.
LogEntriesWitness ==
    /\ logger.cleared # {}
    /\ \E p \in LogPaths : Len(logger.files[p]) = 4
    /\ \A t \in 1..MaxLoggerThreads : logger.thr[t].pc = "idle"

\* C27: when reset_instance is called as well, every instance a call of
\* Logger() has returned has its log file path, and no log or clear_log on a
\* returned instance raised for the lack of it.
InstancesInitializedBeforeUse ==
    \A t \in 1..MaxLoggerThreads :
        /\ \A r \in logger.thr[t].got \ {0} : logger.objects[r] # None
        /\ ~logger.thr[t].raised

(* ------------------------------------------------------------------ *)
(* The main window                                                     *)
(*                                                                     *)
(* ui holds the fields of MainWindow that decide what its buttons do,  *)
(* the enabled state of the buttons, the visibility of the progress    *)
(* bar and the worker threads that are running.  Every slot runs in    *)
(* the GUI thread, one at a time; a button can be clicked only while   *)
(* it is enabled; a running worker delivers its finished or its error  *)
(* signal at any later time.                                           *)
(* ------------------------------------------------------------------ *)

\* MainWindow.__init__ and _setup_ui.
MainWindowConstructed ==
    [alive |-> TRUE,
     current_xml_file |-> FALSE, current_xsl_file |-> FALSE,
     element_name |-> FALSE,
     auth_service |-> FALSE, drive_storage |-> FALSE,
     last_search_result |-> FALSE, last_html_content |-> FALSE,
     load_data_button |-> FALSE, search_button |-> FALSE,
     transform_button |-> FALSE, view_html_button |-> FALSE,
     xml_drive_button |-> FALSE, xsl_drive_button |-> FALSE,
     upload_xml_button |-> FALSE, upload_html_button |-> FALSE,
     progress_bar |-> FALSE,
     searches |-> 0,
     uploads |-> [k \in {"xml", "html"} |-> 0],
     downloads |-> [k \in {"xml", "xsl"} |-> 0]]

UIInit ==
    /\ ui = MainWindowConstructed
    /\ logger = NoLogger
    /\ lists = 0
    /\ match = NoMatch
    /\ file = Missing
    /\ pc = "Idle"
    /\ strategy = ""
    /\ op = ""
    /\ query = NoQuery
    /\ attempted = FALSE
    /\ searched = FALSE
    /\ pos = 0
    /\ handler = SAXSearchHandlerInit
    /\ collector = NoCollector
    /\ stack = << >>
    /\ results = << >>
    /\ attributes = {}
    /\ values = {}
    /\ returned = None
    /\ failure = None
    /\ log = << >>
    /\ visited = << >>
    /\ xml = None
    /\ calls = 0
    /\ previous = None
    /\ threads = << >>

notUI ==
    << file, pc, strategy, op, query, attempted, searched, pos, handler,
       collector, stack, results, attributes, values, returned, failure, log,
       match, visited, xml, calls, previous, threads, lists, logger >>

\* MainWindow._update_transform_button
UpdateTransformButton(u) ==
    [u EXCEPT !.transform_button = u.current_xml_file /\ u.current_xsl_file]

\* MainWindow._update_drive_buttons_state
UpdateDriveButtonsState(u) ==
    LET is_authenticated == u.auth_service
    IN [u EXCEPT !.xml_drive_button = is_authenticated,
                 !.xsl_drive_button = is_authenticated,
                 !.upload_xml_button = is_authenticated /\ u.last_search_result,
                 !.upload_html_button = is_authenticated /\ u.last_html_content]

\* What may become of the process when a field that holds a worker is
\* assigned a new worker: if the worker it held is still running, its thread
\* object loses its last reference while the thread runs, and the process
\* either goes on with both threads or is aborted.
AfterReplacing(running) ==
    IF running > 0 THEN BOOLEAN ELSE {TRUE}

\* _browse_xml_file, the user having chosen a file in the dialog.
BrowseXmlFile ==
    /\ ui.alive
    /\ ui' = UpdateTransformButton(
                [ui EXCEPT !.current_xml_file = TRUE,
                           !.load_data_button = TRUE,
                           !.search_button = TRUE])
    /\ UNCHANGED notUI

\* _browse_xsl_file, the user having chosen a file in the dialog.
BrowseXslFile ==
    /\ ui.alive
    /\ ui' = UpdateTransformButton([ui EXCEPT !.current_xsl_file = TRUE])
    /\ UNCHANGED notUI

\* The user types an element name into the element combo box, or empties it.
EditElementName(nonempty) ==
    /\ ui.alive
    /\ ui' = [ui EXCEPT !.element_name = nonempty]
    /\ UNCHANGED notUI

\* _clear_all
ClearAll ==
    /\ ui.alive
    /\ ui' = [ui EXCEPT !.element_name = FALSE]
    /\ UNCHANGED notUI

\* _execute_search, on a click of the Search button.
ExecuteSearch ==
    /\ ui.alive
    /\ ui.search_button
    /\ IF ~ui.current_xml_file \/ ~ui.element_name
       THEN UNCHANGED ui
       ELSE /\ ui.searches < MaxWorkers
            /\ \E a \in AfterReplacing(ui.searches) :
                  ui' = [ui EXCEPT !.searches = @ + 1,
                                   !.progress_bar = TRUE,
                                   !.search_button = FALSE,
                                   !.alive = a]
    /\ UNCHANGED notUI

\* _on_search_finished, on the finished signal of a running ParserWorker.
OnSearchFinished ==
    /\ ui.alive
    /\ ui.searches > 0
    /\ ui' = UpdateDriveButtonsState(
                [ui EXCEPT !.searches = @ - 1,
                           !.progress_bar = FALSE,
                           !.search_button = TRUE,
                           !.last_search_result = TRUE])
    /\ UNCHANGED notUI

\* _on_search_error, on the error signal of a running ParserWorker.
OnSearchError ==
    /\ ui.alive
    /\ ui.searches > 0
    /\ ui' = [ui EXCEPT !.searches = @ - 1,
                        !.progress_bar = FALSE,
                        !.search_button = TRUE]
    /\ UNCHANGED notUI

\* _transform_xml, on a click of the Transform button; the transformation
\* succeeds or raises.
TransformXml(succeeds) ==
    /\ ui.alive
    /\ ui.transform_button
    /\ IF ~ui.current_xml_file \/ ~ui.current_xsl_file \/ ~succeeds
       THEN UNCHANGED ui
       ELSE ui' = [UpdateDriveButtonsState([ui EXCEPT !.last_html_content = TRUE])
                      EXCEPT !.view_html_button = TRUE]
    /\ UNCHANGED notUI

\* _authenticate_google; authenticate() returns or raises.
AuthenticateGoogle(succeeds) ==
    /\ ui.alive
    /\ ui' = IF succeeds
             THEN UpdateDriveButtonsState(
                     [ui EXCEPT !.auth_service = TRUE, !.drive_storage = TRUE])
             ELSE [ui EXCEPT !.auth_service = TRUE]
    /\ UNCHANGED notUI

\* _upload_search_results_xml (kind "xml") and _upload_html (kind "html"), on
\* a click of the upload button of that kind.
Upload(kind) ==
    LET button == IF kind = "xml" THEN ui.upload_xml_button ELSE ui.upload_html_button
        data == IF kind = "xml" THEN ui.last_search_result ELSE ui.last_html_content
        running == ui.uploads["xml"] + ui.uploads["html"]
    IN /\ ui.alive
       /\ button
       /\ IF ~ui.drive_storage \/ ~data
          THEN UNCHANGED ui
          ELSE /\ running < MaxWorkers
               /\ \E a \in AfterReplacing(running) :
                     ui' = [ui EXCEPT !.uploads[kind] = @ + 1,
                                      !.progress_bar = TRUE,
                                      !.upload_xml_button =
                                          IF kind = "xml" THEN FALSE ELSE @,
                                      !.upload_html_button =
                                          IF kind = "html" THEN FALSE ELSE @,
                                      !.alive = a]
       /\ UNCHANGED notUI

\* _on_upload_finished, on the finished signal of a running upload.
OnUploadFinished(kind) ==
    /\ ui.alive
    /\ ui.uploads[kind] > 0
    /\ ui' = UpdateDriveButtonsState(
                [ui EXCEPT !.uploads[kind] = @ - 1, !.progress_bar = FALSE])
    /\ UNCHANGED notUI

\* _on_upload_error, on the error signal of a running upload.
OnUploadError(kind) ==
    /\ ui.alive
    /\ ui.uploads[kind] > 0
    /\ ui' = UpdateDriveButtonsState(
                [ui EXCEPT !.uploads[kind] = @ - 1, !.progress_bar = FALSE])
    /\ UNCHANGED notUI

\* _load_xml_from_drive (kind "xml") and _load_xsl_from_drive (kind "xsl"),
\* the listing having succeeded and the user having selected a file.
LoadFromDrive(kind) ==
    LET button == IF kind = "xml" THEN ui.xml_drive_button ELSE ui.xsl_drive_button
        running == ui.downloads["xml"] + ui.downloads["xsl"]
    IN /\ ui.alive
       /\ button
       /\ IF ~ui.drive_storage
          THEN UNCHANGED ui
          ELSE /\ running < MaxWorkers
               /\ \E a \in AfterReplacing(running) :
                     ui' = [ui EXCEPT !.downloads[kind] = @ + 1,
                                      !.progress_bar = TRUE,
                                      !.alive = a]
       /\ UNCHANGED notUI

\* _on_xml_downloaded and _on_xsl_downloaded, on the finished signal of a
\* running download; writing the temporary file succeeds or raises.
OnDownloaded(kind, written) ==
    /\ ui.alive
    /\ ui.downloads[kind] > 0
    /\ LET u == [ui EXCEPT !.downloads[kind] = @ - 1, !.progress_bar = FALSE]
       IN ui' = IF ~written THEN u
                ELSE IF kind = "xml"
                THEN UpdateTransformButton(
                        [u EXCEPT !.current_xml_file = TRUE,
                                  !.load_data_button = TRUE,
                                  !.search_button = TRUE])
                ELSE UpdateTransformButton([u EXCEPT !.current_xsl_file = TRUE])
    /\ UNCHANGED notUI

\* _on_download_error, on the error signal of a running download.
OnDownloadError(kind) ==
    /\ ui.alive
    /\ ui.downloads[kind] > 0
    /\ ui' = [ui EXCEPT !.downloads[kind] = @ - 1, !.progress_bar = FALSE]
    /\ UNCHANGED notUI

NextUI ==
    \/ BrowseXmlFile
    \/ BrowseXslFile
    \/ \E e \in BOOLEAN : EditElementName(e)
    \/ ClearAll
    \/ ExecuteSearch
    \/ OnSearchFinished
    \/ OnSearchError
    \/ \E ok \in BOOLEAN : TransformXml(ok)
    \/ \E ok \in BOOLEAN : AuthenticateGoogle(ok)
    \/ \E k \in {"xml", "html"} : Upload(k)
    \/ \E k \in {"xml", "html"} : OnUploadFinished(k)
    \/ \E k \in {"xml", "html"} : OnUploadError(k)
    \/ \E k \in {"xml", "xsl"} : LoadFromDrive(k)
    \/ \E k \in {"xml", "xsl"}, w \in BOOLEAN : OnDownloaded(k, w)
    \/ \E k \in {"xml", "xsl"} : OnDownloadError(k)

SpecUI ==
    UIInit /\ [][NextUI]_vars

\* C28: at most one search worker runs at a time, and the Search button is
\* disabled as long as a search worker that was started has not delivered
\* its finished or error signal.
OneSearchWorkerAtATime ==
    /\ ui.searches <= 1
    /\ ui.searches > 0 => ~ui.search_button

\* C29: an upload button is enabled only if the Drive storage has been set
\* by a successful authentication and the data the button uploads exists,
\* and while an upload is running the button that started it is disabled
\* and the progress bar is visible.
UploadButtonsGuarded ==
    /\ ui.upload_xml_button => ui.drive_storage /\ ui.last_search_result
    /\ ui.upload_html_button => ui.drive_storage /\ ui.last_html_content
    /\ ui.uploads["xml"] > 0 => ~ui.upload_xml_button /\ ui.progress_bar
    /\ ui.uploads["html"] > 0 => ~ui.upload_html_button /\ ui.progress_bar

====
